---- MODULE Spec2Model ----
(***************************************************************************)
(* Collateral vault backend: the local mirror of per-owner vault balances  *)
(* (table vaults), the audit records, and the operations of VaultService   *)
(* (services/vault_service.rs) and VaultManager (vault_manager.rs) that    *)
(* submit a transaction to the ledger and then update the mirror.          *)
(*                                                                         *)
(* Integers: the program's amounts are u64 and the mirror's columns are    *)
(* i64 (BIGINT).  The model keeps both widths but scales them to WordBits  *)
(* bits, so that U64_MAX = 2^WordBits - 1 and I64_MAX = 2^(WordBits-1) - 1.*)
(*                                                                         *)
(* Specifications: Spec answers one request at a time; SpecRecon adds the  *)
(* reconciliation of a row (BalanceTracker::reconcile_vault); SpecConc     *)
(* runs two requests on one vault at once, interleaved at their awaits;    *)
(* SpecDrift lets ledger and mirror drift apart by amounts around the      *)
(* correction threshold and runs the reconciliation pass over the rows;    *)
(* SpecTracker runs the tracker's loop as a task of its own, with the      *)
(* fairness of its timer.                                                  *)
(***************************************************************************)
EXTENDS Integers, Sequences, FiniteSets, TLC

\* ------------------------------------------------------------------ bounds
WordBits == 12
MaxAmount == 2
MaxTx == 2
MaxRecon == 1

Owners == {"A", "B"}

U64_MAX == 2^WordBits - 1
I64_MAX == 2^(WordBits - 1) - 1
I64_MIN == 0 - 2^(WordBits - 1)

InI64(x) == x >= I64_MIN /\ x <= I64_MAX
InU64(x) == x >= 0 /\ x <= U64_MAX

\* request amounts: small ones, and the largest u64 (whose i64 cast is -1)
Amounts == (1..MaxAmount) \cup {U64_MAX}

\* the absence of a row (of an account)
NoVault == [missing |-> TRUE]

\* `amount as i64`: two's-complement reinterpretation of a u64
AsI64(amount) == IF amount > I64_MAX THEN amount - 2^WordBits ELSE amount

\* ------------------------------------------------------------------- state
VARIABLES
    vaults,     \* mirror: owner -> row of table vaults, or NoVault
    onchain,    \* ledger: owner -> on-chain vault account, or NoVault
    events,     \* audit records (vault events and transactions), oldest first
    reconLog,   \* rows of reconciliation_logs, oldest first
    nextSig,    \* number of signatures the ledger has returned so far
    last,       \* the request being answered and its result, NoRequest when idle
    tasks,      \* the requests in flight at once: task -> its request and position
    base,       \* the mirror when the requests in flight were accepted, or NoPair
    tracker,    \* the BalanceTracker task: its position in the loop of start
    builder,    \* the TransactionBuilder in use and the transaction it built
    ident,      \* mirror: owner -> the identity columns of its row, or NoVault
    rpc         \* the shared RpcClient: its mutex and the requests calling through it

vars == <<vaults, onchain, events, reconLog, nextSig, last, tasks, base, tracker,
          builder, ident, rpc>>

\* ------------------------------------------------------ the shared RPC client
\* the requests that may be in flight on the one RpcService at once
MaxRequests == 2
Requests == 1..MaxRequests

\* no task holds the guard of rpc_client
Free == 0

\* the calls a request makes, in order; "store" is a call of the mirror store,
\* the others are the methods of RpcService
Script(kind) ==
    CASE kind = "initialize_vault" ->
             <<"send_transaction", "confirm_transaction", "store">>
      [] kind = "deposit_collateral" ->
             <<"send_transaction", "store", "get_fee_for_transaction">>
      [] kind = "submit_transaction" ->
             <<"send_transaction", "get_transaction_status">>
      [] kind = "get_transaction_status" -> <<"get_transaction_status">>
      [] OTHER -> <<"get_account_data">>
RequestKinds ==
    {"initialize_vault", "deposit_collateral", "submit_transaction",
     "get_transaction_status", "get_account_data"}

\* the calls of the RpcClient a method makes while it holds the guard
ClientCalls(method) == IF method = "get_fee_for_transaction" THEN 2 ELSE 1

\* a request not yet made
NotStarted ==
    [kind |-> "none", step |-> 0, at |-> "idle", calls |-> 0, waited |-> FALSE,
     result |-> "none"]
RpcIdle == [holder |-> Free, waiters |-> << >>, req |-> [t \in Requests |-> NotStarted]]

\* the guard going out of scope without giving the mutex back
drop_guard_leaked(r, t) == r

\* the MutexGuard of a method dropped as the method returns
drop_guard(r, t) == [r EXCEPT !.holder = Free]

\* the tracker between two ticks, before its first pass
TrackerIdle == [pc |-> "Idle", result |-> "none"]

\* no TransactionBuilder constructed
NoBuilder == [pc |-> "none"]

\* models/database.rs Vault: the row store_vault inserts
NewVault ==
    [total_balance |-> 0, locked_balance |-> 0, available_balance |-> 0,
     total_deposited |-> 0, total_withdrawn |-> 0]

\* the on-chain account a confirmed initialize creates
NewAccount == [total_balance |-> 0, locked_balance |-> 0, available_balance |-> 0]

\* last: the operation, its inputs, its result, and which collaborators it called:
\* built (the Transaction Builder was asked for a transaction), sent (the
\* transaction was handed to the Ledger Client), fetched (the ledger was asked for
\* the on-chain account), sig (the signature the ledger returned, 0 if none)
NoRequest ==
    [svc |-> "none", op |-> "none", owner |-> "none", to |-> "none", amount |-> 0,
     result |-> "none", built |-> FALSE, sent |-> FALSE, fetched |-> FALSE,
     sig |-> 0]

\* what a VaultService operation answers; every one of them builds first
Response(op, owner, to, amount, result, sent, sig) ==
    [svc |-> "VaultService", op |-> op, owner |-> owner, to |-> to,
     amount |-> amount, result |-> result,
     built |-> TRUE, sent |-> sent, fetched |-> FALSE, sig |-> sig]

\* what a VaultManager operation answers; the contract client builds as it sends
ManagerResponse(op, owner, amount, result, fetched, sent, sig) ==
    [svc |-> "VaultManager", op |-> op, owner |-> owner, to |-> owner,
     amount |-> amount, result |-> result,
     built |-> sent, sent |-> sent, fetched |-> fetched, sig |-> sig]

\* a row whose columns all fit BIGINT
RowFits(v) ==
    /\ InI64(v.total_balance)
    /\ InI64(v.locked_balance)
    /\ InI64(v.available_balance)

\* ------------------------------------------------------------------ ledger
\* The external ledger program.  A submission the ledger accepts (send_transaction
\* with preflight, or anchor's send-and-confirm) requires the program's own rule
\* for the instruction to hold on the on-chain account; every submission may also
\* fail (network error, rejection) and then has no effect.
ChainAccepts(kind, owner, to, amount) ==
    CASE kind = "initialize" -> onchain[owner] = NoVault
      [] kind = "deposit" ->
            /\ onchain[owner] # NoVault
            /\ InU64(onchain[owner].total_balance + amount)
      [] kind = "withdraw" ->
            /\ onchain[owner] # NoVault
            /\ onchain[owner].available_balance >= amount
      [] kind = "lock" ->
            /\ onchain[owner] # NoVault
            /\ onchain[owner].available_balance >= amount
      [] kind = "unlock" ->
            /\ onchain[owner] # NoVault
            /\ onchain[owner].locked_balance >= amount
      [] kind = "transfer" ->
            /\ onchain[owner] # NoVault
            /\ onchain[to] # NoVault
            /\ onchain[owner].available_balance >= amount
            /\ (to # owner => InU64(onchain[to].total_balance + amount))
      [] kind = "close" -> onchain[owner] # NoVault
      [] OTHER -> FALSE

ChainDelta(acct, dt, dl, da) ==
    [total_balance |-> acct.total_balance + dt,
     locked_balance |-> acct.locked_balance + dl,
     available_balance |-> acct.available_balance + da]

ChainApply(kind, owner, to, amount) ==
    CASE kind = "initialize" -> [onchain EXCEPT ![owner] = NewAccount]
      [] kind = "deposit" ->
            [onchain EXCEPT ![owner] = ChainDelta(@, amount, 0, amount)]
      [] kind = "withdraw" ->
            [onchain EXCEPT ![owner] = ChainDelta(@, 0 - amount, 0, 0 - amount)]
      [] kind = "lock" ->
            [onchain EXCEPT ![owner] = ChainDelta(@, 0, amount, 0 - amount)]
      [] kind = "unlock" ->
            [onchain EXCEPT ![owner] = ChainDelta(@, 0, 0 - amount, amount)]
      [] kind = "transfer" ->
            [onchain EXCEPT ![owner] = ChainDelta(@, 0 - amount, 0, 0 - amount),
                            ![to] = ChainDelta(@, amount, 0, amount)]
      [] kind = "close" -> [onchain EXCEPT ![owner] = NoVault]
      [] OTHER -> onchain

\* send_transaction returns the signature once the preflight simulation passed; it
\* does not wait for the transaction to land.  fault "drop": the transaction never
\* lands (it expires or is dropped) and the ledger stays as it was.
Landed(fault, chain) == IF fault = "drop" THEN onchain ELSE chain

\* a submission can be accepted: the ledger's rule holds and a signature is left
CanSubmit(kind, owner, to, amount) ==
    /\ nextSig < MaxTx
    /\ ChainAccepts(kind, owner, to, amount)

\* ------------------------------------------------------- requests in flight
\* The runtime answers requests concurrently: each await of a handler is a point
\* where another request's step can run.  A task is one such request.
TaskIds == {1, 2}

IdleTask ==
    [svc |-> "none", op |-> "none", owner |-> "none", amount |-> 0, pc |-> "idle",
     result |-> "none", applied |-> FALSE, sig |-> 0]

NoTasks == [t \in TaskIds |-> IdleTask]
NoPair == [none |-> TRUE]

\* ------------------------------------------------------------ mirror store
StoreOk(vs) == [ok |-> TRUE, err |-> "none", vaults |-> vs]
StoreErr(e, vs) == [ok |-> FALSE, err |-> e, vaults |-> vs]

\* an update that writes the row read when the request was accepted plus the
\* deltas, in place of one UPDATE relative to the row as it is now
update_vault_balance_from_read(vs, owner, total_delta, locked_delta, available_delta) ==
    IF vs[owner] = NoVault THEN StoreOk(vs)
    ELSE LET read == IF base = NoPair THEN vs[owner] ELSE base[owner]
             row == [read EXCEPT
                        !.total_balance = @ + total_delta,
                        !.locked_balance = @ + locked_delta,
                        !.available_balance = @ + available_delta]
         IN StoreOk([vs EXCEPT ![owner] = row])

\* an UPDATE that also adds the signed total delta to the lifetime deposits
update_vault_balance_signed_lifetime(vs, owner, total_delta, locked_delta, available_delta) ==
    IF vs[owner] = NoVault THEN StoreOk(vs)
    ELSE LET row == [vs[owner] EXCEPT
                        !.total_balance = @ + total_delta,
                        !.locked_balance = @ + locked_delta,
                        !.available_balance = @ + available_delta,
                        !.total_deposited = @ + total_delta]
         IN IF RowFits(row) THEN StoreOk([vs EXCEPT ![owner] = row])
            ELSE StoreErr("StoreError", vs)

\* an UPDATE without its WHERE clause: every row takes the deltas
update_vault_balance_every_row(vs, owner, total_delta, locked_delta, available_delta) ==
    IF vs[owner] = NoVault THEN StoreOk(vs)
    ELSE StoreOk([o \in DOMAIN vs |->
                    IF vs[o] = NoVault THEN NoVault
                    ELSE [vs[o] EXCEPT
                             !.total_balance = @ + total_delta,
                             !.locked_balance = @ + locked_delta,
                             !.available_balance = @ + available_delta]])

\* an upsert: with no row for the owner, a row holding the deltas is inserted
update_vault_balance_upsert(vs, owner, total_delta, locked_delta, available_delta) ==
    LET old == IF vs[owner] = NoVault THEN NewVault ELSE vs[owner]
        row == [old EXCEPT
                   !.total_balance = @ + total_delta,
                   !.locked_balance = @ + locked_delta,
                   !.available_balance = @ + available_delta]
    IN IF RowFits(row) THEN StoreOk([vs EXCEPT ![owner] = row])
       ELSE StoreErr("StoreError", vs)

\* Database::update_vault_balance: one UPDATE adding the three deltas to the row
\* WHERE owner = $1.  No row: nothing is updated and the call is Ok.  A column
\* leaving BIGINT: the statement fails and the row is unchanged.
update_vault_balance(vs, owner, total_delta, locked_delta, available_delta) ==
    IF vs[owner] = NoVault THEN StoreOk(vs)
    ELSE LET row == [vs[owner] EXCEPT
                        !.total_balance = @ + total_delta,
                        !.locked_balance = @ + locked_delta,
                        !.available_balance = @ + available_delta]
         IN IF RowFits(row) THEN StoreOk([vs EXCEPT ![owner] = row])
            ELSE StoreErr("StoreError", vs)

\* db_pool.store_vault: insert the row under its owner key
store_vault(vs, owner, row) ==
    IF vs[owner] # NoVault THEN StoreErr("VaultAlreadyExists", vs)
    ELSE StoreOk([vs EXCEPT ![owner] = row])

\* db_pool.delete_vault: delete the owner's row
delete_vault(vs, owner) == StoreOk([vs EXCEPT ![owner] = NoVault])

\* Database::create_vault: INSERT of owner and addresses, balances by default 0
create_vault(vs, owner) ==
    IF vs[owner] # NoVault THEN StoreErr("StoreError", vs)
    ELSE StoreOk([vs EXCEPT ![owner] = NewVault])

\* the audit record store_vault_event / record_transaction appends
Event(owner, kind, amount, sig) ==
    [owner |-> owner, kind |-> kind, amount |-> amount, sig |-> sig]

\* the closures the service hands to update_vault_balances
ClosureOk(v) == [ok |-> TRUE, vault |-> v]
ClosureErr(v) == [ok |-> FALSE, vault |-> v]

\* a lock closure that moves the amount without looking at available_balance
LockClosure_Unchecked(vault, amount) ==
    ClosureOk([vault EXCEPT !.available_balance = @ - amount,
                            !.locked_balance = @ + amount])

LockClosure(vault, amount) ==
    IF vault.available_balance >= amount
    THEN ClosureOk([vault EXCEPT !.available_balance = @ - amount,
                                 !.locked_balance = @ + amount])
    ELSE ClosureErr(vault)

\* an unlock that takes the amount out of the vault instead of freeing it
UnlockClosure_Releases(vault, amount) ==
    IF vault.locked_balance >= amount
    THEN ClosureOk([vault EXCEPT !.locked_balance = @ - amount,
                                 !.total_balance = @ - amount])
    ELSE ClosureErr(vault)

UnlockClosure(vault, amount) ==
    IF vault.locked_balance >= amount
    THEN ClosureOk([vault EXCEPT !.locked_balance = @ - amount,
                                 !.available_balance = @ + amount])
    ELSE ClosureErr(vault)

\* a sender-side closure that debits available_balance and leaves total_balance
TransferOutClosure_KeepsTotal(vault, amount) ==
    IF vault.available_balance >= amount
    THEN ClosureOk([vault EXCEPT !.available_balance = @ - amount])
    ELSE ClosureErr(vault)

TransferOutClosure(vault, amount) ==
    IF vault.available_balance >= amount
    THEN ClosureOk([vault EXCEPT !.available_balance = @ - amount,
                                 !.total_balance = @ - amount])
    ELSE ClosureErr(vault)

\* a receiving side that credits available_balance and leaves total_balance alone
TransferInClosure_AvailableOnly(vault, amount) ==
    ClosureOk([vault EXCEPT !.available_balance = @ + amount])

TransferInClosure(vault, amount) ==
    ClosureOk([vault EXCEPT !.available_balance = @ + amount,
                            !.total_balance = @ + amount])

\* the closure a call site passes
ApplyClosure(closure, vault, amount) ==
    CASE closure = "lock" -> LockClosure(vault, amount)
      [] closure = "unlock" -> UnlockClosure(vault, amount)
      [] closure = "transfer_out" -> TransferOutClosure(vault, amount)
      [] closure = "transfer_in" -> TransferInClosure(vault, amount)
      [] OTHER -> ClosureErr(vault)

\* db_pool.update_vault_balances(owner, closure): read the owner's row, run the
\* closure on it and write the row back only if the closure returned Ok, as one
\* atomic step of the store.  closure names the closure, amount is what it captures.
update_vault_balances(vs, owner, closure, amount) ==
    IF vs[owner] = NoVault THEN StoreErr("VaultNotFound", vs)
    ELSE LET r == ApplyClosure(closure, vs[owner], amount)
         IN IF ~r.ok THEN StoreErr("InsufficientBalance", vs)
            ELSE IF ~RowFits(r.vault) THEN StoreErr("StoreError", vs)
            ELSE StoreOk([vs EXCEPT ![owner] = r.vault])

\* ------------------------------------------------------- a vault's identity
\* The columns of a row that say which vault it is: owner, vault_address and
\* created_at.  An address the runtime derives is, here, the inputs it is
\* derived from: the seeds and the program.
ProgramId == "vault_program"

\* Pubkey::find_program_address(seeds, program_id)
find_program_address(seeds, program_id) == [seeds |-> seeds, program |-> program_id]

\* a derivation that leaves the owner out of the seeds
get_vault_pda_shared(owner) == find_program_address(<<"vault">>, ProgramId)

\* AnchorClient::get_vault_pda
get_vault_pda(owner) == find_program_address(<<"vault", owner>>, ProgramId)

Identity(owner, vault_address, created_at) ==
    [owner |-> owner, vault_address |-> vault_address, created_at |-> created_at]

\* the rows that were in the store when the process started, created at time 0
\* by an initialize of an earlier run
StoredBefore(vs) ==
    [o \in DOMAIN vs |->
        IF vs[o] = NoVault THEN NoVault ELSE Identity(o, get_vault_pda(o), 0)]

\* The identity columns after a request that leaves the mirror's balances as v.
\* An INSERT (store_vault, Database::create_vault) writes them: VaultService
\* stores get_vault_pda(owner), VaultManager derives the address in place; the
\* creation time is the time of the request, counted in submissions.  A DELETE
\* removes them with the row.  The UPDATEs name neither column.
WriteIdentity(v, now, l) ==
    [o \in DOMAIN v |->
        CASE v[o] = NoVault -> NoVault
          [] vaults[o] # NoVault -> ident[o]
          [] l.svc = "VaultManager" ->
                 Identity(o, find_program_address(<<"vault", o>>, ProgramId), now)
          [] OTHER -> Identity(o, get_vault_pda(o), now)]

\* ----------------------------------------------------------------- helpers
\* the owners that have a row in the mirror
Rows == {o \in Owners : vaults[o] # NoVault}

\* no request is being answered: the next one can be taken
Idle == last = NoRequest

Finish(v, c, e, s, l) ==
    /\ vaults' = v
    /\ onchain' = c
    /\ events' = e
    /\ reconLog' = reconLog
    /\ nextSig' = s
    /\ last' = l
    /\ ident' = WriteIdentity(v, s, l)
    /\ UNCHANGED <<tasks, base, tracker, builder, rpc>>

\* the request returns before anything was changed
Reject(l) == Finish(vaults, onchain, events, nextSig, l)

\* ------------------------------------------------- VaultService operations
\* Every operation takes the first call of its body that fails as an input
\* (fault): the `?` after that call returns the error and skips the rest.
\* sig is the signature the ledger returned to the request, 0 if it returned none.

\* VaultService::initialize_vault
\* RpcService::confirm_transaction asks the ledger once for the signature's status
\* and drops the answer: only an RPC error ("confirm") stops the operation, a
\* transaction that has not landed ("drop") does not.
initialize_vault(owner, fault) ==
    LET R(result, sent, s) == Response("initialize", owner, owner, 0, result, sent, s)
        sig == nextSig + 1
        chain == Landed(fault, ChainApply("initialize", owner, owner, 0))
        st == store_vault(vaults, owner, NewVault)
    IN
    /\ fault \in {"build", "send", "drop", "confirm", "db", "none"}
    /\ fault \notin {"build", "send"} => CanSubmit("initialize", owner, owner, 0)
    /\ CASE fault = "build" -> Reject(R("BuildError", FALSE, 0))
         [] fault = "send" -> Reject(R("LedgerError", TRUE, 0))
         [] fault = "confirm" ->
                Finish(vaults, chain, events, sig, R("LedgerError", TRUE, sig))
         [] fault = "db" ->
                Finish(vaults, chain, events, sig, R("StoreError", TRUE, sig))
         [] OTHER ->
                IF st.ok
                THEN Finish(st.vaults, chain, events, sig, R("Ok", TRUE, sig))
                ELSE Finish(vaults, chain, events, sig, R(st.err, TRUE, sig))

\* VaultService::deposit_collateral
deposit_collateral(owner, amount, fault) ==
    LET R(result, sent, s) == Response("deposit", owner, owner, amount, result, sent, s)
        sig == nextSig + 1
        chain == Landed(fault, ChainApply("deposit", owner, owner, amount))
        logged == Append(events, Event(owner, "deposit", amount, sig))
    IN
    /\ fault \in {"build", "send", "drop", "event", "fee", "none"}
    /\ fault \notin {"build", "send"} => CanSubmit("deposit", owner, owner, amount)
    /\ CASE fault = "build" -> Reject(R("BuildError", FALSE, 0))
         [] fault = "send" -> Reject(R("LedgerError", TRUE, 0))
         [] fault = "event" ->
                Finish(vaults, chain, events, sig, R("StoreError", TRUE, sig))
         [] fault = "fee" ->
                Finish(vaults, chain, logged, sig, R("LedgerError", TRUE, sig))
         [] OTHER -> Finish(vaults, chain, logged, sig, R("Ok", TRUE, sig))

\* VaultService::withdraw_collateral
withdraw_collateral(owner, amount, fault) ==
    LET R(result, sent, s) == Response("withdraw", owner, owner, amount, result, sent, s)
        sig == nextSig + 1
        chain == Landed(fault, ChainApply("withdraw", owner, owner, amount))
        logged == Append(events, Event(owner, "withdraw", amount, sig))
    IN
    /\ fault \in {"build", "send", "drop", "event", "fee", "none"}
    /\ fault \notin {"build", "send"} => CanSubmit("withdraw", owner, owner, amount)
    /\ CASE fault = "build" -> Reject(R("BuildError", FALSE, 0))
         [] fault = "send" -> Reject(R("LedgerError", TRUE, 0))
         [] fault = "event" ->
                Finish(vaults, chain, events, sig, R("StoreError", TRUE, sig))
         [] fault = "fee" ->
                Finish(vaults, chain, logged, sig, R("LedgerError", TRUE, sig))
         [] OTHER -> Finish(vaults, chain, logged, sig, R("Ok", TRUE, sig))

\* a lock that writes the mirror before it submits: a failed submission leaves
\* the delta behind
lock_collateral_update_first(owner, amount, fault) ==
    LET R(result, sent, s) == Response("lock", owner, owner, amount, result, sent, s)
        sig == nextSig + 1
        chain == Landed(fault, ChainApply("lock", owner, owner, amount))
        st == update_vault_balances(vaults, owner, "lock", amount)
        logged == Append(events, Event(owner, "lock", amount, sig))
    IN
    /\ fault \in {"build", "send", "drop", "db", "event", "fee", "none"}
    /\ fault \notin {"build", "send"} => CanSubmit("lock", owner, owner, amount)
    /\ CASE fault = "build" -> Reject(R("BuildError", FALSE, 0))
         [] fault = "db" ->
                Finish(vaults, chain, events, sig, R("StoreError", TRUE, sig))
         [] ~st.ok -> Reject(R(st.err, FALSE, 0))
         [] fault = "send" ->
                Finish(st.vaults, onchain, events, nextSig, R("LedgerError", TRUE, 0))
         [] fault = "event" ->
                Finish(st.vaults, chain, events, sig, R("StoreError", TRUE, sig))
         [] fault = "fee" ->
                Finish(st.vaults, chain, logged, sig, R("LedgerError", TRUE, sig))
         [] OTHER -> Finish(st.vaults, chain, logged, sig, R("Ok", TRUE, sig))

\* VaultService::lock_collateral
lock_collateral(owner, amount, fault) ==
    LET R(result, sent, s) == Response("lock", owner, owner, amount, result, sent, s)
        sig == nextSig + 1
        chain == Landed(fault, ChainApply("lock", owner, owner, amount))
        st == update_vault_balances(vaults, owner, "lock", amount)
        logged == Append(events, Event(owner, "lock", amount, sig))
    IN
    /\ fault \in {"build", "send", "drop", "db", "event", "fee", "none"}
    /\ fault \notin {"build", "send"} => CanSubmit("lock", owner, owner, amount)
    /\ CASE fault = "build" -> Reject(R("BuildError", FALSE, 0))
         [] fault = "send" -> Reject(R("LedgerError", TRUE, 0))
         [] fault = "db" ->
                Finish(vaults, chain, events, sig, R("StoreError", TRUE, sig))
         [] OTHER ->
                IF ~st.ok
                THEN Finish(vaults, chain, events, sig, R(st.err, TRUE, sig))
                ELSE CASE fault = "event" ->
                            Finish(st.vaults, chain, events, sig,
                                   R("StoreError", TRUE, sig))
                       [] fault = "fee" ->
                            Finish(st.vaults, chain, logged, sig,
                                   R("LedgerError", TRUE, sig))
                       [] OTHER ->
                            Finish(st.vaults, chain, logged, sig, R("Ok", TRUE, sig))

\* VaultService::unlock_collateral
unlock_collateral(owner, amount, fault) ==
    LET R(result, sent, s) == Response("unlock", owner, owner, amount, result, sent, s)
        sig == nextSig + 1
        chain == Landed(fault, ChainApply("unlock", owner, owner, amount))
        st == update_vault_balances(vaults, owner, "unlock", amount)
        logged == Append(events, Event(owner, "unlock", amount, sig))
    IN
    /\ fault \in {"build", "send", "drop", "db", "event", "fee", "none"}
    /\ fault \notin {"build", "send"} => CanSubmit("unlock", owner, owner, amount)
    /\ CASE fault = "build" -> Reject(R("BuildError", FALSE, 0))
         [] fault = "send" -> Reject(R("LedgerError", TRUE, 0))
         [] fault = "db" ->
                Finish(vaults, chain, events, sig, R("StoreError", TRUE, sig))
         [] OTHER ->
                IF ~st.ok
                THEN Finish(vaults, chain, events, sig, R(st.err, TRUE, sig))
                ELSE CASE fault = "event" ->
                            Finish(st.vaults, chain, events, sig,
                                   R("StoreError", TRUE, sig))
                       [] fault = "fee" ->
                            Finish(st.vaults, chain, logged, sig,
                                   R("LedgerError", TRUE, sig))
                       [] OTHER ->
                            Finish(st.vaults, chain, logged, sig, R("Ok", TRUE, sig))

\* VaultService::transfer_collateral
transfer_collateral(from_owner, to_owner, amount, fault) ==
    LET R(result, sent, s) ==
            Response("transfer", from_owner, to_owner, amount, result, sent, s)
        sig == nextSig + 1
        chain == Landed(fault, ChainApply("transfer", from_owner, to_owner, amount))
        st1 == update_vault_balances(vaults, from_owner, "transfer_out", amount)
        st2 == update_vault_balances(st1.vaults, to_owner, "transfer_in", amount)
        out == Append(events, Event(from_owner, "transfer_out", amount, sig))
        both == Append(out, Event(to_owner, "transfer_in", amount, sig))
    IN
    /\ fault \in {"build", "send", "drop", "db1", "db2", "event1", "event2", "fee", "none"}
    /\ fault \notin {"build", "send"}
            => CanSubmit("transfer", from_owner, to_owner, amount)
    /\ CASE fault = "build" -> Reject(R("BuildError", FALSE, 0))
         [] fault = "send" -> Reject(R("LedgerError", TRUE, 0))
         [] fault = "db1" ->
                Finish(vaults, chain, events, sig, R("StoreError", TRUE, sig))
         [] OTHER ->
                IF ~st1.ok
                THEN Finish(vaults, chain, events, sig, R(st1.err, TRUE, sig))
                ELSE IF fault = "db2"
                THEN Finish(st1.vaults, chain, events, sig, R("StoreError", TRUE, sig))
                ELSE IF ~st2.ok
                THEN Finish(st1.vaults, chain, events, sig, R(st2.err, TRUE, sig))
                ELSE CASE fault = "event1" ->
                            Finish(st2.vaults, chain, events, sig,
                                   R("StoreError", TRUE, sig))
                       [] fault = "event2" ->
                            Finish(st2.vaults, chain, out, sig,
                                   R("StoreError", TRUE, sig))
                       [] fault = "fee" ->
                            Finish(st2.vaults, chain, both, sig,
                                   R("LedgerError", TRUE, sig))
                       [] OTHER ->
                            Finish(st2.vaults, chain, both, sig, R("Ok", TRUE, sig))

\* a close that removes the closed vault's earlier events along with its row
close_vault_purging(owner, fault) ==
    LET R(result, sent, s) == Response("close", owner, owner, 0, result, sent, s)
        sig == nextSig + 1
        chain == Landed(fault, ChainApply("close", owner, owner, 0))
        st == delete_vault(vaults, owner)
        OfOther(e) == e.owner # owner
        kept == SelectSeq(events, OfOther)
        logged == Append(kept, Event(owner, "close", 0, sig))
    IN
    /\ fault \in {"build", "send", "drop", "db", "event", "fee", "none"}
    /\ fault \notin {"build", "send"} => CanSubmit("close", owner, owner, 0)
    /\ CASE fault = "build" -> Reject(R("BuildError", FALSE, 0))
         [] fault = "send" -> Reject(R("LedgerError", TRUE, 0))
         [] fault = "db" ->
                Finish(vaults, chain, events, sig, R("StoreError", TRUE, sig))
         [] fault = "event" ->
                Finish(st.vaults, chain, kept, sig, R("StoreError", TRUE, sig))
         [] fault = "fee" ->
                Finish(st.vaults, chain, logged, sig, R("LedgerError", TRUE, sig))
         [] OTHER -> Finish(st.vaults, chain, logged, sig, R("Ok", TRUE, sig))

\* VaultService::close_vault
close_vault(owner, fault) ==
    LET R(result, sent, s) == Response("close", owner, owner, 0, result, sent, s)
        sig == nextSig + 1
        chain == Landed(fault, ChainApply("close", owner, owner, 0))
        st == delete_vault(vaults, owner)
        logged == Append(events, Event(owner, "close", 0, sig))
    IN
    /\ fault \in {"build", "send", "drop", "db", "event", "fee", "none"}
    /\ fault \notin {"build", "send"} => CanSubmit("close", owner, owner, 0)
    /\ CASE fault = "build" -> Reject(R("BuildError", FALSE, 0))
         [] fault = "send" -> Reject(R("LedgerError", TRUE, 0))
         [] fault = "db" ->
                Finish(vaults, chain, events, sig, R("StoreError", TRUE, sig))
         [] fault = "event" ->
                Finish(st.vaults, chain, events, sig, R("StoreError", TRUE, sig))
         [] fault = "fee" ->
                Finish(st.vaults, chain, logged, sig, R("LedgerError", TRUE, sig))
         [] OTHER -> Finish(st.vaults, chain, logged, sig, R("Ok", TRUE, sig))

\* ------------------------------------------------- VaultManager operations
\* VaultManager::initialize_user_vault.  The lookup `if let Ok(_)` takes a failed
\* query (fault "lookup") for "no such vault".
initialize_user_vault(owner, fault) ==
    LET R(result, sent, s) ==
            ManagerResponse("initialize", owner, 0, result, FALSE, sent, s)
        sig == nextSig + 1
        chain == ChainApply("initialize", owner, owner, 0)
        st == create_vault(vaults, owner)
        exists == fault # "lookup" /\ vaults[owner] # NoVault
    IN
    /\ fault \in {"lookup", "send", "db", "none"}
    /\ (~exists /\ fault # "send") => CanSubmit("initialize", owner, owner, 0)
    /\ IF exists
       THEN Reject(R("VaultAlreadyExists", FALSE, 0))
       ELSE CASE fault = "send" -> Reject(R("LedgerError", TRUE, 0))
              [] fault = "db" ->
                    Finish(vaults, chain, events, sig, R("StoreError", TRUE, sig))
              [] OTHER ->
                    IF st.ok
                    THEN Finish(st.vaults, chain, events, sig, R("Ok", TRUE, sig))
                    ELSE Finish(vaults, chain, events, sig, R(st.err, TRUE, sig))

\* VaultManager::deposit_collateral
manager_deposit_collateral(owner, amount, fault) ==
    LET R(result, fetched, sent, s) ==
            ManagerResponse("deposit", owner, amount, result, fetched, sent, s)
        sig == nextSig + 1
        chain == ChainApply("deposit", owner, owner, amount)
        logged == Append(events, Event(owner, "deposit", AsI64(amount), sig))
        st == update_vault_balance(vaults, owner, AsI64(amount), 0, AsI64(amount))
    IN
    /\ fault \in {"fetch", "send", "rec", "db", "none"}
    /\ (fault \notin {"fetch", "send"} /\ onchain[owner] # NoVault)
            => CanSubmit("deposit", owner, owner, amount)
    /\ CASE fault = "fetch" -> Reject(R("LedgerError", TRUE, FALSE, 0))
         [] onchain[owner] = NoVault -> Reject(R("AccountNotFound", TRUE, FALSE, 0))
         [] fault = "send" -> Reject(R("LedgerError", TRUE, TRUE, 0))
         [] fault = "rec" ->
                Finish(vaults, chain, events, sig, R("StoreError", TRUE, TRUE, sig))
         [] fault = "db" ->
                Finish(vaults, chain, logged, sig, R("StoreError", TRUE, TRUE, sig))
         [] OTHER ->
                IF st.ok
                THEN Finish(st.vaults, chain, logged, sig, R("Ok", TRUE, TRUE, sig))
                ELSE Finish(vaults, chain, logged, sig, R(st.err, TRUE, TRUE, sig))

\* VaultManager::withdraw_collateral
manager_withdraw_collateral(owner, amount, fault) ==
    LET R(result, fetched, sent, s) ==
            ManagerResponse("withdraw", owner, amount, result, fetched, sent, s)
        sig == nextSig + 1
        chain == ChainApply("withdraw", owner, owner, amount)
        delta == 0 - AsI64(amount)
        logged == Append(events, Event(owner, "withdrawal", delta, sig))
        st == update_vault_balance(vaults, owner, delta, 0, delta)
    IN
    /\ fault \in {"fetch", "send", "rec", "db", "none"}
    /\ (/\ fault \notin {"fetch", "send"}
        /\ onchain[owner] # NoVault
        /\ onchain[owner].available_balance >= amount)
            => CanSubmit("withdraw", owner, owner, amount)
    /\ CASE fault = "fetch" -> Reject(R("LedgerError", TRUE, FALSE, 0))
         [] onchain[owner] = NoVault -> Reject(R("AccountNotFound", TRUE, FALSE, 0))
         [] onchain[owner].available_balance < amount ->
                Reject(R("InsufficientBalance", TRUE, FALSE, 0))
         [] fault = "send" -> Reject(R("LedgerError", TRUE, TRUE, 0))
         [] fault = "rec" ->
                Finish(vaults, chain, events, sig, R("StoreError", TRUE, TRUE, sig))
         [] fault = "db" ->
                Finish(vaults, chain, logged, sig, R("StoreError", TRUE, TRUE, sig))
         [] OTHER ->
                IF st.ok
                THEN Finish(st.vaults, chain, logged, sig, R("Ok", TRUE, TRUE, sig))
                ELSE Finish(vaults, chain, logged, sig, R(st.err, TRUE, TRUE, sig))

\* ---------------------------------------------------------- reconciliation
\* BalanceTracker::get_all_vaults_from_db
get_all_vaults_from_db == << >>

\* BalanceTracker::reconcile_vault, the body of the pass's loop: compare the
\* on-chain total with the record's, log a discrepancy, and correct one below the
\* threshold by adding it to total_balance and available_balance.
AUTO_CORRECT_THRESHOLD == 1000

Abs(x) == IF x < 0 THEN 0 - x ELSE x

\* a discrepancy taken the other way round
Discrepancy_Reversed(onchain_total, db_total) == db_total - onchain_total

\* let discrepancy = onchain_total - db_total
Discrepancy(onchain_total, db_total) == onchain_total - db_total

\* a threshold that still corrects a discrepancy equal to it
AutoCorrects_Inclusive(discrepancy) == Abs(discrepancy) <= AUTO_CORRECT_THRESHOLD

\* if discrepancy.abs() < 1000
AutoCorrects(discrepancy) == Abs(discrepancy) < AUTO_CORRECT_THRESHOLD

\* a log that keeps only the discrepancies left uncorrected
log_discrepancy_uncorrected(log, owner, onchain_balance, offchain_balance, discrepancy) ==
    IF Abs(discrepancy) < AUTO_CORRECT_THRESHOLD THEN log
    ELSE Append(log, [owner |-> owner, onchain_balance |-> onchain_balance,
                      offchain_balance |-> offchain_balance,
                      discrepancy |-> discrepancy])

\* BalanceTracker::log_discrepancy: INSERT INTO reconciliation_logs
log_discrepancy(log, owner, onchain_balance, offchain_balance, discrepancy) ==
    Append(log, [owner |-> owner, onchain_balance |-> onchain_balance,
                 offchain_balance |-> offchain_balance,
                 discrepancy |-> discrepancy])

\* a correction that moves the discrepancy into locked_balance
auto_correct_locked(vs, owner, discrepancy) ==
    update_vault_balance(vs, owner, discrepancy, discrepancy, 0)

\* self.db.update_vault_balance(&vault.owner, discrepancy, 0, discrepancy)
auto_correct(vs, owner, discrepancy) ==
    update_vault_balance(vs, owner, discrepancy, 0, discrepancy)

\* the VaultRecord of an owner's row, as a list of the mirror's vaults holds it
VaultRecord(owner) ==
    [owner |-> owner, total_balance |-> vaults[owner].total_balance]

\* what reconcile_vault leaves: the mirror, the log, Ok or the error, and the
\* discrepancy it computed (0 when it did not get that far)
Reconciled(vs, log, result, discrepancy) ==
    [vaults |-> vs, log |-> log, result |-> result, discrepancy |-> discrepancy]

\* reconcile_vault on one record, from mirror vs and log; fault is the call of
\* its body that fails: the on-chain fetch, the log insert or the update
reconcile_vault_outcome(vs, log, vault, fault) ==
    LET onchain_total == AsI64(onchain[vault.owner].total_balance)
        db_total == vault.total_balance
        discrepancy == Discrepancy(onchain_total, db_total)
        logged == log_discrepancy(log, vault.owner, onchain_total, db_total,
                                  discrepancy)
        st == auto_correct(vs, vault.owner, discrepancy)
    IN
    CASE fault = "fetch" \/ onchain[vault.owner] = NoVault ->
            Reconciled(vs, log, "LedgerError", 0)
      [] discrepancy = 0 -> Reconciled(vs, log, "Ok", 0)
      [] fault = "log" -> Reconciled(vs, log, "StoreError", discrepancy)
      [] ~AutoCorrects(discrepancy) -> Reconciled(vs, logged, "Ok", discrepancy)
      [] fault = "db" \/ ~st.ok -> Reconciled(vs, logged, "StoreError", discrepancy)
      [] OTHER -> Reconciled(st.vaults, logged, "Ok", discrepancy)

ReconFaults == {"fetch", "log", "db", "none"}

\* one iteration of the pass's loop, on the owner's row of the mirror
reconcile_vault(owner, fault) ==
    LET R(result) == [NoRequest EXCEPT !.svc = "BalanceTracker", !.op = "reconcile",
                                       !.owner = owner, !.result = result,
                                       !.fetched = TRUE]
        out == reconcile_vault_outcome(vaults, reconLog, VaultRecord(owner), fault)
    IN
    /\ vaults[owner] # NoVault
    /\ fault \in ReconFaults
    /\ UNCHANGED <<onchain, events, nextSig, tasks, base, tracker, builder, ident, rpc>>
    /\ vaults' = out.vaults
    /\ reconLog' = out.log
    /\ last' = R(out.result)

\* BalanceTracker::reconcile_all_vaults, the loop: the state it carries from one
\* vault to the next.  visited: the owners reconcile_vault was called for;
\* failed: those it returned Err for; corrected: those whose row it changed;
\* total_discrepancies: the count the pass reports at its end.
PassStart(vs, log) ==
    [vaults |-> vs, log |-> log, visited |-> {}, failed |-> {}, corrected |-> {},
     total_discrepancies |-> 0]

\* match self.reconcile_vault(&vault).await { Ok(discrepancy) => .., Err(e) => .. }
PassAfter(st, vault, out) ==
    [vaults |-> out.vaults,
     log |-> out.log,
     visited |-> st.visited \cup {vault.owner},
     failed |-> IF out.result = "Ok" THEN st.failed ELSE st.failed \cup {vault.owner},
     corrected |-> IF out.vaults = st.vaults THEN st.corrected
                   ELSE st.corrected \cup {vault.owner},
     total_discrepancies |->
        IF out.result = "Ok" /\ out.discrepancy # 0
        THEN st.total_discrepancies + 1 ELSE st.total_discrepancies]

\* a loop that stops at the first vault whose reconciliation failed
PassStep_StopAtFailure(st, vault, fault) ==
    IF st.failed # {} THEN st
    ELSE PassAfter(st, vault,
                   reconcile_vault_outcome(st.vaults, st.log, vault, fault))

PassStep(st, vault, fault) ==
    PassAfter(st, vault, reconcile_vault_outcome(st.vaults, st.log, vault, fault))

\* for vault in vaults { .. }: the loop over a list, faults[i] being the fault of
\* the i-th vault's reconciliation
reconcile_vaults(vs, log, list, faults) ==
    LET st[i \in 0..Len(list)] ==
            IF i = 0 THEN PassStart(vs, log)
            ELSE PassStep(st[i - 1], list[i], faults[i])
    IN st[Len(list)]

\* what a pass leaves for the log line at its end; listed: the owners of the
\* list it walked; previous: the owners the pass directly before it corrected
PassResponse(list, p) ==
    [svc |-> "BalanceTracker", op |-> "pass", owner |-> "none", to |-> "none",
     amount |-> 0, result |-> "Ok", built |-> FALSE, sent |-> FALSE,
     fetched |-> p.visited # {}, sig |-> 0,
     listed |-> {list[i].owner : i \in 1..Len(list)},
     previous |-> IF last.op = "pass" THEN last.corrected ELSE {},
     visited |-> p.visited, failed |-> p.failed, corrected |-> p.corrected,
     total_discrepancies |-> p.total_discrepancies]

\* a pass over a list of vault records; a tick may follow the previous pass
\* directly, no request in between
reconcile_pass(list, faults) ==
    LET p == reconcile_vaults(vaults, reconLog, list, faults) IN
    /\ Idle \/ last.op = "pass"
    /\ vaults' = p.vaults
    /\ reconLog' = p.log
    /\ last' = PassResponse(list, p)
    /\ UNCHANGED <<onchain, events, nextSig, tasks, base, tracker, builder, ident, rpc>>

\* BalanceTracker::reconcile_all_vaults: one pass over get_all_vaults_from_db
reconcile_all_vaults ==
    \E faults \in [1..Len(get_all_vaults_from_db) -> ReconFaults] :
        reconcile_pass(get_all_vaults_from_db, faults)

\* ------------------------------------------------------------ specification
\* The store and the ledger outlive the process: at start every owner either has
\* no vault, or a vault that initialize created and nothing has touched yet.
Init ==
    /\ tasks = NoTasks
    /\ base = NoPair
    /\ \E present \in SUBSET Owners :
          /\ vaults = [o \in Owners |-> IF o \in present THEN NewVault ELSE NoVault]
          /\ onchain = [o \in Owners |-> IF o \in present THEN NewAccount ELSE NoVault]
    /\ events = << >>
    /\ reconLog = << >>
    /\ nextSig = 0
    /\ last = NoRequest
    /\ tracker = TrackerIdle
    /\ builder = NoBuilder
    /\ ident = StoredBefore(vaults)
    /\ rpc = RpcIdle

ServiceFaults == {"build", "send", "drop", "event", "fee", "none"}
ManagerFaults == {"fetch", "send", "rec", "db", "none"}

\* one action per operation: any request for it, taken when the service is idle
InitializeVault ==
    Idle /\ \E o \in Owners, f \in {"build", "send", "drop", "confirm", "db", "none"} :
                initialize_vault(o, f)
DepositCollateral ==
    Idle /\ \E o \in Owners, a \in Amounts, f \in ServiceFaults :
                deposit_collateral(o, a, f)
WithdrawCollateral ==
    Idle /\ \E o \in Owners, a \in Amounts, f \in ServiceFaults :
                withdraw_collateral(o, a, f)
LockCollateral ==
    Idle /\ \E o \in Owners, a \in Amounts, f \in ServiceFaults \cup {"db"} :
                lock_collateral(o, a, f)
UnlockCollateral ==
    Idle /\ \E o \in Owners, a \in Amounts, f \in ServiceFaults \cup {"db"} :
                unlock_collateral(o, a, f)
TransferCollateral ==
    Idle /\ \E o \in Owners, t \in Owners, a \in Amounts,
               f \in ServiceFaults \cup {"db1", "db2", "event1", "event2"} :
                transfer_collateral(o, t, a, f)
CloseVault ==
    Idle /\ \E o \in Owners, f \in ServiceFaults \cup {"db"} : close_vault(o, f)
InitializeUserVault ==
    Idle /\ \E o \in Owners, f \in {"lookup", "send", "db", "none"} :
                initialize_user_vault(o, f)
ManagerDeposit ==
    Idle /\ \E o \in Owners, a \in Amounts, f \in ManagerFaults :
                manager_deposit_collateral(o, a, f)
ManagerWithdraw ==
    Idle /\ \E o \in Owners, a \in Amounts, f \in ManagerFaults :
                manager_withdraw_collateral(o, a, f)

\* the API handler hands the result to the caller (api/handlers.rs, api/mod.rs)
respond ==
    /\ last # NoRequest
    /\ last' = NoRequest
    /\ UNCHANGED <<vaults, onchain, events, reconLog, nextSig, tasks, base, tracker, builder, ident, rpc>>

Next ==
    \/ InitializeVault
    \/ DepositCollateral
    \/ WithdrawCollateral
    \/ LockCollateral
    \/ UnlockCollateral
    \/ TransferCollateral
    \/ CloseVault
    \/ InitializeUserVault
    \/ ManagerDeposit
    \/ ManagerWithdraw
    \/ reconcile_all_vaults
    \/ respond

Spec == Init /\ [][Next]_vars

\* The reconciliation pass with a vault list to walk: reconcile_vault runs on any
\* row of the mirror, as it would once get_all_vaults_from_db returned the rows.
ReconcileVault ==
    /\ Idle
    /\ Len(reconLog) < MaxRecon
    /\ \E o \in Owners, f \in ReconFaults : reconcile_vault(o, f)

NextRecon == Next \/ ReconcileVault

SpecRecon == Init /\ [][NextRecon]_vars

\* Drift between the ledger and the mirror, and the pass over the mirror's rows.
\* The requests are deposits and withdrawals of the two amounts at the correction
\* threshold, none of whose calls fails: VaultService's move the ledger and not
\* the mirror, VaultManager's move both.  The pass walks the rows of the mirror
\* in a fixed order, as it would once get_all_vaults_from_db returned them.
DriftAmounts == {AUTO_CORRECT_THRESHOLD - 1, AUTO_CORRECT_THRESHOLD}
MaxLog == 4
OwnerOrder == <<"A", "B">>

\* a vault that earlier requests left with a deposit of MaxAmount, 1 of it locked
LockedVault ==
    [NewVault EXCEPT !.total_balance = MaxAmount, !.locked_balance = 1,
                     !.available_balance = MaxAmount - 1]
LockedAccount ==
    [NewAccount EXCEPT !.total_balance = MaxAmount, !.locked_balance = 1,
                       !.available_balance = MaxAmount - 1]

\* the process starts on the store and the ledger that earlier runs left: every
\* owner has no vault, a new one, or one with a locked deposit, ledger and mirror
\* agreeing
InitDrift ==
    /\ tasks = NoTasks
    /\ base = NoPair
    /\ \E kind \in [Owners -> {"absent", "new", "locked"}] :
          /\ vaults = [o \in Owners |->
                          CASE kind[o] = "absent" -> NoVault
                            [] kind[o] = "new" -> NewVault
                            [] OTHER -> LockedVault]
          /\ onchain = [o \in Owners |->
                          CASE kind[o] = "absent" -> NoVault
                            [] kind[o] = "new" -> NewAccount
                            [] OTHER -> LockedAccount]
    /\ events = << >>
    /\ reconLog = << >>
    /\ nextSig = 0
    /\ last = NoRequest
    /\ tracker = TrackerIdle
    /\ builder = NoBuilder
    /\ ident = StoredBefore(vaults)
    /\ rpc = RpcIdle

\* the records of the mirror's rows, in OwnerOrder
AllVaultRecords ==
    LET acc[i \in 0..Len(OwnerOrder)] ==
            IF i = 0 THEN << >>
            ELSE IF vaults[OwnerOrder[i]] = NoVault THEN acc[i - 1]
            ELSE Append(acc[i - 1], VaultRecord(OwnerOrder[i]))
    IN acc[Len(OwnerOrder)]

DriftDeposit ==
    Idle /\ \E o \in Owners, a \in DriftAmounts : deposit_collateral(o, a, "none")
DriftWithdraw ==
    Idle /\ \E o \in Owners, a \in DriftAmounts : withdraw_collateral(o, a, "none")
ManagerDriftDeposit ==
    Idle /\ \E o \in Owners, a \in DriftAmounts :
                manager_deposit_collateral(o, a, "none")
ReconcileDriftVault ==
    /\ Idle
    /\ Len(reconLog) < MaxLog
    /\ \E o \in Owners, f \in ReconFaults : reconcile_vault(o, f)
ReconcilePass ==
    /\ Len(reconLog) + Len(AllVaultRecords) <= MaxLog
    /\ \E faults \in [1..Len(AllVaultRecords) -> ReconFaults] :
          reconcile_pass(AllVaultRecords, faults)

NextDrift ==
    \/ DriftDeposit
    \/ DriftWithdraw
    \/ ManagerDriftDeposit
    \/ ReconcileDriftVault
    \/ ReconcilePass
    \/ respond

SpecDrift == InitDrift /\ [][NextDrift]_vars

\* ------------------------------------------------- the tracker's own task
\* BalanceTracker::start runs in a task of its own (main.rs: tokio::spawn), beside
\* the requests: loop { interval.tick().await; reconcile_all_vaults().await }.

\* a loop that ends at the first pass that returned an error
tick_until_error ==
    /\ tracker.pc = "Idle"
    /\ tracker.result # "Err"
    /\ tracker' = [tracker EXCEPT !.pc = "Scanning"]
    /\ UNCHANGED <<vaults, onchain, events, reconLog, nextSig, last, tasks, base,
                   builder, ident, rpc>>

\* interval.tick().await returns: the next pass starts
tick ==
    /\ tracker.pc = "Idle"
    /\ tracker' = [tracker EXCEPT !.pc = "Scanning"]
    /\ UNCHANGED <<vaults, onchain, events, reconLog, nextSig, last, tasks, base,
                   builder, ident, rpc>>

\* reconcile_all_vaults().await returns.  fault "list": the `?` after
\* get_all_vaults_from_db returned its error, which start logs; otherwise the
\* loop has walked the list, with faults[i] the fault of its i-th vault
scan(fault, faults) ==
    LET p == reconcile_vaults(vaults, reconLog, get_all_vaults_from_db, faults) IN
    /\ tracker.pc = "Scanning"
    /\ fault \in {"list", "none"}
    /\ IF fault = "list"
       THEN /\ tracker' = [pc |-> "Idle", result |-> "Err"]
            /\ UNCHANGED <<vaults, reconLog>>
       ELSE /\ tracker' = [pc |-> "Idle", result |-> "Ok"]
            /\ vaults' = p.vaults
            /\ reconLog' = p.log
    /\ UNCHANGED <<onchain, events, nextSig, last, tasks, base, builder, ident, rpc>>

Tick == tick
Scan ==
    \E f \in {"list", "none"},
       faults \in [1..Len(get_all_vaults_from_db) -> ReconFaults] : scan(f, faults)

\* the tracker beside requests that create and close vaults.  The timer fires
\* again after every interval and a pass, being a loop over a finite list of
\* calls that return, ends: both steps are taken once they stay possible.
NextTracker ==
    \/ Tick
    \/ Scan
    \/ InitializeUserVault
    \/ CloseVault
    \/ respond

SpecTracker == Init /\ [][NextTracker]_vars /\ WF_vars(Tick) /\ WF_vars(Scan)

\* the drift that an unlock leaves when the ledger took it and the mirror did
\* not, followed by withdrawals, beside the reconciliation of single vaults
NextLockDrift ==
    \/ Idle /\ \E o \in Owners, a \in 1..MaxAmount, f \in {"db", "none"} :
                   unlock_collateral(o, a, f)
    \/ Idle /\ \E o \in Owners, a \in 1..MaxAmount : withdraw_collateral(o, a, "none")
    \/ ReconcileDriftVault
    \/ respond

SpecLockDrift == InitDrift /\ [][NextLockDrift]_vars

\* ------------------------------------------- the pass, one vault at a time
\* reconcile_all_vaults reads its list once and then awaits reconcile_vault for
\* each record of it: requests run between the read and each of these calls, and
\* reconcile_vault works on the record of the list, not on the row as it is by
\* then.  The list is the mirror's rows, as in SpecDrift.  tracker.list: the
\* records still to visit; tracker.done: for each record visited, its owner, the
\* total_balance the record held, whether the owner had a row when it was
\* visited, and what reconcile_vault returned.
snapshot_read ==
    /\ tracker.pc = "Idle"
    /\ tracker' = [pc |-> "Reconciling", result |-> tracker.result,
                   list |-> AllVaultRecords, done |-> << >>]
    /\ UNCHANGED <<vaults, onchain, events, reconLog, nextSig, last, tasks, base,
                   builder, ident, rpc>>

reconcile_next(fault) ==
    LET vault == Head(tracker.list)
        out == reconcile_vault_outcome(vaults, reconLog, vault, fault)
        visit == [owner |-> vault.owner, total_balance |-> vault.total_balance,
                  present |-> vaults[vault.owner] # NoVault, result |-> out.result]
    IN
    /\ tracker.pc = "Reconciling"
    /\ tracker.list # << >>
    /\ Len(reconLog) < MaxLog
    /\ fault \in ReconFaults
    /\ vaults' = out.vaults
    /\ reconLog' = out.log
    /\ tracker' = [tracker EXCEPT !.list = Tail(@), !.done = Append(@, visit)]
    /\ UNCHANGED <<onchain, events, nextSig, last, tasks, base, builder, ident, rpc>>

pass_end ==
    /\ tracker.pc = "Reconciling"
    /\ tracker.list = << >>
    /\ tracker' = [pc |-> "Idle", result |-> "Ok"]
    /\ UNCHANGED <<vaults, onchain, events, reconLog, nextSig, last, tasks, base,
                   builder, ident, rpc>>

\* the pass in steps, beside deposits and closes: a close that lands, and one
\* whose transaction never does
NextStale ==
    \/ snapshot_read
    \/ \E f \in {"fetch", "none"} : reconcile_next(f)
    \/ pass_end
    \/ DriftDeposit
    \/ ManagerDriftDeposit
    \/ Idle /\ \E o \in Owners, f \in {"drop", "none"} : close_vault(o, f)
    \/ respond

SpecStale == InitDrift /\ [][NextStale]_vars

\* ------------------------------------------------- an operation and its reverse
\* locks and unlocks through VaultService, deposits and withdrawals through
\* VaultManager, every call succeeding, on the vaults earlier runs left
NextRoundTrip ==
    \/ Idle /\ \E o \in Owners, a \in Amounts : lock_collateral(o, a, "none")
    \/ Idle /\ \E o \in Owners, a \in Amounts : unlock_collateral(o, a, "none")
    \/ Idle /\ \E o \in Owners, a \in Amounts : manager_deposit_collateral(o, a, "none")
    \/ Idle /\ \E o \in Owners, a \in Amounts : manager_withdraw_collateral(o, a, "none")
    \/ respond

SpecRoundTrip == InitDrift /\ [][NextRoundTrip]_vars

\* ------------------------------------------- requests on the shared RPC client
RpcFrame ==
    UNCHANGED <<vaults, onchain, events, reconLog, nextSig, last, tasks, base, tracker,
                builder, ident>>

\* the method of RpcService, or the store call, request t is at
Method(t) == Script(rpc.req[t].kind)[rpc.req[t].step]

\* request t after its call returned with result res: an error ends the request
\* (the `?` of the caller), a success takes it to its next call or to its end
Continue(q, res) ==
    IF res = "Err" \/ q.step = Len(Script(q.kind))
    THEN [q EXCEPT !.at = "done", !.result = res]
    ELSE [q EXCEPT !.step = @ + 1, !.at = "start", !.calls = 0, !.result = "none"]

\* a handler starts serving a request
begin_request(t, kind) ==
    /\ rpc.req[t].at = "idle"
    /\ rpc' = [rpc EXCEPT !.req[t] = [NotStarted EXCEPT !.kind = kind, !.step = 1,
                                                        !.at = "start"]]
    /\ RpcFrame

\* `self.rpc_client.lock().await`: the task joins the mutex's queue
lock_await(t) ==
    /\ rpc.req[t].at = "start"
    /\ Method(t) # "store"
    /\ rpc' = [rpc EXCEPT !.waiters = Append(@, t),
                          !.req[t].at = "waiting",
                          !.req[t].waited = (rpc.holder # Free \/ rpc.waiters # << >>)
                                            \/ @]
    /\ RpcFrame

\* the mutex, free, goes to the task that has waited longest
acquire(t) ==
    /\ rpc.req[t].at = "waiting"
    /\ rpc.holder = Free
    /\ rpc.waiters # << >>
    /\ Head(rpc.waiters) = t
    /\ rpc' = [rpc EXCEPT !.holder = t, !.waiters = Tail(@), !.req[t].at = "holding"]
    /\ RpcFrame

\* one call of the RpcClient under the guard; an error leaves the method at once
client_call(t, ok) ==
    /\ rpc.req[t].at = "holding"
    /\ rpc.holder = t
    /\ LET n == rpc.req[t].calls + 1
       IN rpc' = [rpc EXCEPT !.req[t].calls = n,
                             !.req[t].at = IF ok /\ n < ClientCalls(Method(t))
                                           THEN "holding" ELSE "returning",
                             !.req[t].result = IF ok THEN "Ok" ELSE "Err"]
    /\ RpcFrame

\* the method returns to the request: its guard is dropped
method_return(t) ==
    /\ rpc.req[t].at = "returning"
    /\ rpc' = [drop_guard(rpc, t) EXCEPT !.req[t] = Continue(@, rpc.req[t].result)]
    /\ RpcFrame

\* a call of the mirror store between two ledger calls: the client is not used
store_call(t, ok) ==
    /\ rpc.req[t].at = "start"
    /\ Method(t) = "store"
    /\ rpc' = [rpc EXCEPT !.req[t] = Continue(@, IF ok THEN "Ok" ELSE "Err")]
    /\ RpcFrame

\* the steps of request t once it has been accepted
Proceed(t) ==
    \/ lock_await(t)
    \/ acquire(t)
    \/ \E ok \in BOOLEAN : client_call(t, ok)
    \/ method_return(t)
    \/ \E ok \in BOOLEAN : store_call(t, ok)

NextRpc ==
    \/ \E t \in Requests, k \in RequestKinds : begin_request(t, k)
    \/ \E t \in Requests : Proceed(t)

\* a fresh deployment: the service starts with its client and no vault yet
InitRpc == Init /\ vaults = [o \in Owners |-> NoVault]

\* the runtime runs every task that can run, the ledger and the store answer
SpecRpc == InitRpc /\ [][NextRpc]_vars /\ \A t \in Requests : WF_vars(Proceed(t))

\* --------------------------------------------------- a vault nobody addresses
\* The requests and the reconciliation of SpecRecon beside one more vault, whose
\* owner sends no request and is named in none: what the operations on the
\* other owners' vaults do to a third row.
Bystander == "C"
Holders == Owners \cup {Bystander}

InitFrame ==
    /\ tasks = NoTasks
    /\ base = NoPair
    /\ \E present \in SUBSET Owners :
          /\ vaults = [o \in Holders |->
                          IF o \in present \cup {Bystander} THEN NewVault ELSE NoVault]
          /\ onchain = [o \in Holders |->
                          IF o \in present \cup {Bystander} THEN NewAccount ELSE NoVault]
    /\ events = << >>
    /\ reconLog = << >>
    /\ nextSig = 0
    /\ last = NoRequest
    /\ tracker = TrackerIdle
    /\ builder = NoBuilder
    /\ ident = StoredBefore(vaults)
    /\ rpc = RpcIdle

SpecFrame == InitFrame /\ [][NextRecon]_vars

\* ------------------------------------------------------ Transaction Builder
\* services/transaction_service.rs.  An instruction is the program it calls and
\* its data; a keypair is its name.  builder.calls is the history of the calls
\* made on the builder, kept so that the properties can speak of call order; the
\* code keeps no such list.
None == [none |-> TRUE]
Some(x) == [some |-> x]

MaxCalls == 3
MaxFee == 1
Payer == "admin"
Keypairs == {"k1", "k2"}
BusinessInstructions == {[program |-> "vault", data |-> d] : d \in 1..2}

set_compute_unit_price(micro_lamports) ==
    [program |-> "ComputeBudget", data |-> micro_lamports]

Called(op, arg) == [op |-> op, arg |-> arg]

new(payer) ==
    [pc |-> "open", payer |-> payer, instructions |-> << >>,
     signers |-> <<payer>>, priority_fee |-> None, calls |-> << >>]

add_instruction(b, instruction) ==
    [b EXCEPT !.instructions = Append(@, instruction),
              !.calls = Append(@, Called("add_instruction", instruction))]

add_signer_first(b, signer) ==
    [b EXCEPT !.signers = <<signer>> \o @,
              !.calls = Append(@, Called("add_signer", [key |-> signer]))]

add_signer(b, signer) ==
    [b EXCEPT !.signers = Append(@, signer),
              !.calls = Append(@, Called("add_signer", [key |-> signer]))]

set_priority_fee(b, micro_lamports) ==
    [b EXCEPT !.priority_fee = Some(micro_lamports),
              !.calls = Append(@, Called("set_priority_fee", [fee |-> micro_lamports]))]

\* Transaction::new_with_payer followed by sign: the envelope
Transaction(instructions, payer, signers) ==
    [result |-> "Ok", instructions |-> instructions, fee_payer |-> payer,
     signers |-> signers]

build_fee_last(b) ==
    LET instructions ==
            IF b.priority_fee # None
            THEN Append(b.instructions, set_compute_unit_price(b.priority_fee.some))
            ELSE b.instructions
    IN  Transaction(instructions, b.payer, b.signers)

build(b) ==
    LET instructions ==
            IF b.priority_fee # None
            THEN <<set_compute_unit_price(b.priority_fee.some)>> \o b.instructions
            ELSE b.instructions
    IN  Transaction(instructions, b.payer, b.signers)

BuilderOpen == builder.pc = "open" /\ Len(builder.calls) < MaxCalls
BuilderFrame ==
    UNCHANGED <<vaults, onchain, events, reconLog, nextSig, last, tasks, base, tracker, ident, rpc>>

\* VaultService::build_transaction (services/vault_service.rs:488-515): the
\* dynamic build request.  The type name is matched against the arms of the
\* dispatcher; the one arm builds the initialize transaction through the
\* Transaction Builder and asks the ledger for its fee, and hands the
\* transaction back without sending it.
TxTypes == {"initialize_vault", "deposit", "mint_nft"}
BuildFaults == {"none", "params", "address", "build", "fee"}

InitializeInstruction == [program |-> "vault", data |-> 0]

\* AnchorClient::build_initialize_vault_transaction (utils/anchor_client.rs:56-116)
build_initialize_vault_transaction ==
    build(add_instruction(new(Payer), InitializeInstruction))

MatchesAnyArm(tx_type) == TRUE
MatchesArm(tx_type) == tx_type = "initialize_vault"

BuildResponse(tx_type, owner, result, transaction) ==
    [svc |-> "VaultService", op |-> "build", owner |-> owner, to |-> owner,
     amount |-> 0, result |-> result, built |-> transaction # None,
     sent |-> FALSE, fetched |-> FALSE, sig |-> 0,
     tx_type |-> tx_type, transaction |-> transaction]

build_transaction(tx_type, owner, fault) ==
    /\ fault \in BuildFaults
    /\ last' =
         IF ~MatchesArm(tx_type)
         THEN BuildResponse(tx_type, owner, "UnknownTransactionType", None)
         ELSE CASE fault = "params"  -> BuildResponse(tx_type, owner, "Panic", None)
                [] fault = "address" -> BuildResponse(tx_type, owner, "InvalidAddress", None)
                [] fault = "build"   -> BuildResponse(tx_type, owner, "LedgerSubmissionError", None)
                [] fault = "fee"     ->
                       BuildResponse(tx_type, owner, "LedgerSubmissionError",
                                     Some(build_initialize_vault_transaction))
                [] OTHER ->
                       BuildResponse(tx_type, owner, "Ok",
                                     Some(build_initialize_vault_transaction))
    /\ UNCHANGED <<vaults, onchain, events, reconLog, nextSig, tasks, base, tracker, builder, ident, rpc>>

BuildTransaction ==
    Idle /\ \E t \in TxTypes, o \in Owners, f \in BuildFaults : build_transaction(t, o, f)

\* the calls on a TransactionBuilder (new, add_instruction, add_signer,
\* set_priority_fee, build), the build request, and the caller taking its response
NextBuilder ==
    \/ /\ builder.pc \in {"none", "built"}
       /\ builder' = new(Payer)
       /\ BuilderFrame
    \/ /\ BuilderOpen
       /\ \E ix \in BusinessInstructions : builder' = add_instruction(builder, ix)
       /\ BuilderFrame
    \/ /\ BuilderOpen
       /\ \E k \in Keypairs : builder' = add_signer(builder, k)
       /\ BuilderFrame
    \/ /\ BuilderOpen
       /\ \E fee \in 0..MaxFee : builder' = set_priority_fee(builder, fee)
       /\ BuilderFrame
    \/ /\ builder.pc = "open"
       /\ builder' = [builder EXCEPT !.pc = "built"] @@ [tx |-> build(builder)]
       /\ BuilderFrame
    \/ BuildTransaction
    \/ respond

SpecBuilder == Init /\ [][NextBuilder]_vars

\* ------------------------------------------ concurrent requests, step by step
\* Two requests against one owner's vault run at once.  Each step below is the
\* code of a handler between two awaits; the steps of the two tasks interleave in
\* any order.  The operations are VaultService's lock and unlock and
\* VaultManager's deposit and withdraw.
StartTask(svc, op, owner, amount) ==
    [IdleTask EXCEPT !.svc = svc, !.op = op, !.owner = owner, !.amount = amount,
                     !.pc = IF svc = "VaultService" THEN "send" ELSE "fetch"]

TaskRequests ==
    {<<"VaultService", "lock">>, <<"VaultService", "unlock">>,
     <<"VaultManager", "deposit">>, <<"VaultManager", "withdraw">>}

\* the runtime accepts two requests for the same owner
Launch ==
    /\ Idle
    /\ tasks = NoTasks
    /\ base = NoPair
    /\ \E o \in Rows, r1 \in TaskRequests, r2 \in TaskRequests,
          a1 \in 1..MaxAmount, a2 \in 1..MaxAmount :
          tasks' = [t \in TaskIds |->
                        IF t = 1 THEN StartTask(r1[1], r1[2], o, a1)
                        ELSE StartTask(r2[1], r2[2], o, a2)]
    /\ base' = vaults
    /\ UNCHANGED <<vaults, onchain, events, reconLog, nextSig, last, tracker, builder, ident, rpc>>

Done(t, result) == [tasks EXCEPT ![t].pc = "done", ![t].result = result]

\* lock_collateral / unlock_collateral up to send_transaction(&tx).await?
service_send(t, fault) ==
    LET r == tasks[t] IN
    /\ r.svc = "VaultService"
    /\ r.pc = "send"
    /\ fault \in {"build", "send", "drop", "none"}
    /\ UNCHANGED <<vaults, events, reconLog, last, base, tracker, builder, ident, rpc>>
    /\ CASE fault = "build" ->
                tasks' = Done(t, "BuildError") /\ UNCHANGED <<onchain, nextSig>>
         [] fault = "send" ->
                tasks' = Done(t, "LedgerError") /\ UNCHANGED <<onchain, nextSig>>
         [] OTHER ->
                /\ ChainAccepts(r.op, r.owner, r.owner, r.amount)
                /\ onchain' = Landed(fault, ChainApply(r.op, r.owner, r.owner, r.amount))
                /\ nextSig' = nextSig + 1
                /\ tasks' = [tasks EXCEPT ![t].pc = "update", ![t].sig = nextSig + 1]

\* lock_collateral / unlock_collateral: db_pool.update_vault_balances(..).await?
service_update(t, fault) ==
    LET r == tasks[t]
        st == update_vault_balances(vaults, r.owner, r.op, r.amount)
    IN
    /\ r.svc = "VaultService"
    /\ r.pc = "update"
    /\ fault \in {"db", "none"}
    /\ UNCHANGED <<onchain, events, reconLog, nextSig, last, base, tracker, builder, ident, rpc>>
    /\ CASE fault = "db" -> tasks' = Done(t, "StoreError") /\ vaults' = vaults
         [] ~st.ok -> tasks' = Done(t, st.err) /\ vaults' = vaults
         [] OTHER ->
                /\ vaults' = st.vaults
                /\ tasks' = [tasks EXCEPT ![t].pc = "log", ![t].applied = TRUE]

\* lock_collateral / unlock_collateral: log_vault_event, get_fee_for_transaction
\* and the return
service_log(t, fault) ==
    LET r == tasks[t]
        logged == Append(events, Event(r.owner, r.op, r.amount, r.sig))
    IN
    /\ r.svc = "VaultService"
    /\ r.pc = "log"
    /\ fault \in {"event", "fee", "none"}
    /\ UNCHANGED <<vaults, onchain, reconLog, nextSig, last, base, tracker, builder, ident, rpc>>
    /\ CASE fault = "event" -> tasks' = Done(t, "StoreError") /\ events' = events
         [] fault = "fee" -> tasks' = Done(t, "LedgerError") /\ events' = logged
         [] OTHER -> tasks' = Done(t, "Ok") /\ events' = logged

\* deposit_collateral / withdraw_collateral of VaultManager: get_vault_state and,
\* for a withdraw, the check of the on-chain available balance
manager_fetch(t, fault) ==
    LET r == tasks[t] IN
    /\ r.svc = "VaultManager"
    /\ r.pc = "fetch"
    /\ fault \in {"fetch", "none"}
    /\ UNCHANGED <<vaults, onchain, events, reconLog, nextSig, last, base, tracker, builder, ident, rpc>>
    /\ CASE fault = "fetch" -> tasks' = Done(t, "LedgerError")
         [] onchain[r.owner] = NoVault -> tasks' = Done(t, "AccountNotFound")
         [] r.op = "withdraw" /\ onchain[r.owner].available_balance < r.amount ->
                tasks' = Done(t, "InsufficientBalance")
         [] OTHER -> tasks' = [tasks EXCEPT ![t].pc = "send"]

\* VaultManager: contract.deposit / contract.withdraw
manager_send(t, fault) ==
    LET r == tasks[t] IN
    /\ r.svc = "VaultManager"
    /\ r.pc = "send"
    /\ fault \in {"send", "none"}
    /\ UNCHANGED <<vaults, events, reconLog, last, base, tracker, builder, ident, rpc>>
    /\ CASE fault = "send" ->
                tasks' = Done(t, "LedgerError") /\ UNCHANGED <<onchain, nextSig>>
         [] OTHER ->
                /\ ChainAccepts(r.op, r.owner, r.owner, r.amount)
                /\ onchain' = ChainApply(r.op, r.owner, r.owner, r.amount)
                /\ nextSig' = nextSig + 1
                /\ tasks' = [tasks EXCEPT ![t].pc = "rec", ![t].sig = nextSig + 1]

\* VaultManager: db.record_transaction
manager_record(t, fault) ==
    LET r == tasks[t]
        rec == IF r.op = "deposit"
               THEN Event(r.owner, "deposit", AsI64(r.amount), r.sig)
               ELSE Event(r.owner, "withdrawal", 0 - AsI64(r.amount), r.sig)
    IN
    /\ r.svc = "VaultManager"
    /\ r.pc = "rec"
    /\ fault \in {"rec", "none"}
    /\ UNCHANGED <<vaults, onchain, reconLog, nextSig, last, base, tracker, builder, ident, rpc>>
    /\ CASE fault = "rec" -> tasks' = Done(t, "StoreError") /\ events' = events
         [] OTHER ->
                /\ events' = Append(events, rec)
                /\ tasks' = [tasks EXCEPT ![t].pc = "update"]

\* VaultManager: db.update_vault_balance and the return
manager_update(t, fault) ==
    LET r == tasks[t]
        delta == IF r.op = "deposit" THEN AsI64(r.amount) ELSE 0 - AsI64(r.amount)
        st == update_vault_balance(vaults, r.owner, delta, 0, delta)
    IN
    /\ r.svc = "VaultManager"
    /\ r.pc = "update"
    /\ fault \in {"db", "none"}
    /\ UNCHANGED <<onchain, events, reconLog, nextSig, last, base, tracker, builder, ident, rpc>>
    /\ CASE fault = "db" -> tasks' = Done(t, "StoreError") /\ vaults' = vaults
         [] ~st.ok -> tasks' = Done(t, st.err) /\ vaults' = vaults
         [] OTHER ->
                /\ vaults' = st.vaults
                /\ tasks' = [Done(t, "Ok") EXCEPT ![t].applied = TRUE]

ServiceSend == \E t \in TaskIds, f \in {"build", "send", "drop", "none"} : service_send(t, f)
ServiceUpdate == \E t \in TaskIds, f \in {"db", "none"} : service_update(t, f)
ServiceLog == \E t \in TaskIds, f \in {"event", "fee", "none"} : service_log(t, f)
ManagerFetch == \E t \in TaskIds, f \in {"fetch", "none"} : manager_fetch(t, f)
ManagerSend == \E t \in TaskIds, f \in {"send", "none"} : manager_send(t, f)
ManagerRecord == \E t \in TaskIds, f \in {"rec", "none"} : manager_record(t, f)
ManagerUpdate == \E t \in TaskIds, f \in {"db", "none"} : manager_update(t, f)

\* requests one at a time until two are accepted at once, then their steps
NextConc ==
    \/ tasks = NoTasks /\ Next
    \/ Launch
    \/ ServiceSend
    \/ ServiceUpdate
    \/ ServiceLog
    \/ ManagerFetch
    \/ ManagerSend
    \/ ManagerRecord
    \/ ManagerUpdate

SpecConc == Init /\ [][NextConc]_vars

\* -------------------------------------------------------------- properties
\* C1: for every vault row of the mirror, total_balance equals locked_balance
\* plus available_balance, in every reachable state, the states after a
\* reconciliation auto-correction included.
C1_BalanceIdentity ==
    \A o \in Rows :
        vaults[o].total_balance = vaults[o].locked_balance + vaults[o].available_balance

\* C1 witness: a reconciliation pass has just auto-corrected a row, adding the
\* discrepancy it logged to the row's total and available balance.
C1_Witness ==
    /\ last.op = "reconcile"
    /\ last.owner \in Rows
    /\ last.result = "Ok"
    /\ Len(reconLog) > 0
    /\ reconLog[Len(reconLog)].discrepancy > 0
    /\ vaults[last.owner].total_balance = reconLog[Len(reconLog)].onchain_balance
    /\ vaults[last.owner].available_balance > 0

\* C2: no balance field of a mirror row is ever negative, and a request answered
\* InsufficientBalance was rejected before any call to the builder or the ledger.
C2_NoNegativeBalance ==
    /\ \A o \in Rows :
          /\ vaults[o].total_balance >= 0
          /\ vaults[o].locked_balance >= 0
          /\ vaults[o].available_balance >= 0
    /\ last.result = "InsufficientBalance"
          => ~last.built /\ ~last.sent /\ ~last.fetched

\* what a request in flight does to a row when it is applied, and the balance it
\* needs: the reference the concurrent outcome is compared with
TaskDelta(t, row) ==
    CASE t.op = "lock" ->
            [row EXCEPT !.available_balance = @ - t.amount,
                        !.locked_balance = @ + t.amount]
      [] t.op = "unlock" ->
            [row EXCEPT !.locked_balance = @ - t.amount,
                        !.available_balance = @ + t.amount]
      [] t.op = "deposit" ->
            [row EXCEPT !.total_balance = @ + t.amount,
                        !.available_balance = @ + t.amount]
      [] t.op = "withdraw" ->
            [row EXCEPT !.total_balance = @ - t.amount,
                        !.available_balance = @ - t.amount]
      [] OTHER -> row

TaskPre(t, row) ==
    CASE t.op = "lock" -> row.available_balance >= t.amount
      [] t.op = "unlock" -> row.locked_balance >= t.amount
      [] OTHER -> TRUE

\* the mirror after the request ran alone on mirror m, given what it answered
SerialStep(t, m) ==
    IF t.applied THEN [m EXCEPT ![t.owner] = TaskDelta(t, @)] ELSE m

\* the request's answer is one it can give when it runs alone on mirror m: an
\* applied delta had its balance, a refusal for want of balance lacked it
SerialOk(t, m) ==
    /\ t.applied => TaskPre(t, m[t.owner])
    /\ (~t.applied /\ t.svc = "VaultService" /\ t.result = "InsufficientBalance")
          => ~TaskPre(t, m[t.owner])

BothDone == \A t \in TaskIds : tasks[t].pc = "done"

Debited(row, amount) ==
    [row EXCEPT !.total_balance = @ - amount, !.available_balance = @ - amount]
Credited(row, amount) ==
    [row EXCEPT !.total_balance = @ + amount, !.available_balance = @ + amount]
BothSides(vs, from, to, amount) ==
    [[vs EXCEPT ![from] = Debited(@, amount)] EXCEPT ![to] = Credited(@, amount)]

\* C4: a transfer applies the sender's debit and the receiver's credit together
\* or applies neither: whatever it answers, the mirror is either unchanged or
\* holds both deltas.
C4_TransferAtomic ==
    [][last'.op = "transfer"
        => \/ vaults' = vaults
           \/ /\ vaults[last'.owner] # NoVault
              /\ vaults[last'.to] # NoVault
              /\ vaults' = BothSides(vaults, last'.owner, last'.to, last'.amount)]_vars

\* the mirror precondition of a request fails: the owner has no row, or the row
\* holds less than the amount in the balance the operation draws on
PreconditionFails(r) ==
    \/ vaults[r.owner] = NoVault
    \/ /\ r.op \in {"withdraw", "lock", "transfer"}
       /\ vaults[r.owner] # NoVault
       /\ vaults[r.owner].available_balance < r.amount
    \/ /\ r.op = "unlock"
       /\ vaults[r.owner] # NoVault
       /\ vaults[r.owner].locked_balance < r.amount

\* C5: a deposit, withdraw, lock, unlock or transfer whose mirror precondition
\* fails answers InsufficientBalance or VaultNotFound without the builder or the
\* ledger having been called, and leaves the mirror and the event log as they were.
C5_PreconditionBeforeExternalCall ==
    [][(/\ last'.op \in {"deposit", "withdraw", "lock", "unlock", "transfer"}
        /\ PreconditionFails(last'))
        => /\ last'.result \in {"InsufficientBalance", "VaultNotFound"}
           /\ ~last'.built
           /\ ~last'.sent
           /\ vaults' = vaults
           /\ events' = events]_vars

\* C6: when the ledger submission of a deposit, withdraw, lock, unlock, transfer
\* or close fails, the request is an error and neither the mirror nor the event
\* log changes.
C6_SubmissionFailureChangesNothing ==
    [][(/\ last'.op \in {"deposit", "withdraw", "lock", "unlock", "transfer", "close"}
        /\ last'.sent
        /\ last'.sig = 0)
        => /\ last'.result # "Ok"
           /\ vaults' = vaults
           /\ events' = events]_vars

\* C6 witness: a lock whose mirror precondition holds was submitted and the
\* submission failed.
C6_Witness ==
    /\ last.op = "lock"
    /\ last.sent
    /\ last.sig = 0
    /\ last.result = "LedgerError"
    /\ last.owner \in Rows
    /\ vaults[last.owner].available_balance >= last.amount

\* C7: a successful deposit of amount on an existing vault adds amount to
\* total_balance, available_balance and total_deposited of the row.
C7_DepositDelta ==
    [][(/\ last'.op = "deposit"
        /\ last'.result = "Ok"
        /\ vaults[last'.owner] # NoVault)
        => vaults'[last'.owner] =
              [vaults[last'.owner] EXCEPT
                  !.total_balance = @ + last'.amount,
                  !.available_balance = @ + last'.amount,
                  !.total_deposited = @ + last'.amount]]_vars

\* C8: a withdraw succeeds only if the row's available_balance covers the amount,
\* then subtracts it from total_balance and available_balance and adds it to
\* total_withdrawn; a withdraw on a row with available_balance 0 answers
\* InsufficientBalance.
C8_WithdrawDelta ==
    [][last'.op = "withdraw"
        => /\ last'.result = "Ok"
              => /\ vaults[last'.owner] # NoVault
                 /\ vaults[last'.owner].available_balance >= last'.amount
                 /\ vaults'[last'.owner] =
                       [vaults[last'.owner] EXCEPT
                           !.total_balance = @ - last'.amount,
                           !.available_balance = @ - last'.amount,
                           !.total_withdrawn = @ + last'.amount]
           /\ (vaults[last'.owner] # NoVault
               /\ vaults[last'.owner].available_balance = 0)
              => last'.result = "InsufficientBalance"]_vars

\* C9: a lock succeeds only if the row's available_balance covers the amount; it
\* then moves the amount from available_balance to locked_balance and changes
\* nothing else in the mirror (total_balance and the lifetime totals included).
C9_LockDelta ==
    [][(last'.op = "lock" /\ last'.result = "Ok")
        => /\ vaults[last'.owner] # NoVault
           /\ vaults[last'.owner].available_balance >= last'.amount
           /\ vaults' = [vaults EXCEPT ![last'.owner] =
                            [@ EXCEPT !.available_balance = @ - last'.amount,
                                      !.locked_balance = @ + last'.amount]]]_vars

\* C9 witness: after a deposit of 2, a lock of 1 has succeeded and the row holds
\* total 2, locked 1, available 1.
C9_Witness ==
    /\ last.op = "lock"
    /\ last.result = "Ok"
    /\ last.amount = 1
    /\ last.owner \in Rows
    /\ vaults[last.owner].total_balance = 2
    /\ vaults[last.owner].locked_balance = 1
    /\ vaults[last.owner].available_balance = 1

\* C10: an unlock succeeds only if the row's locked_balance covers the amount and
\* then moves the amount from locked_balance to available_balance; when
\* locked_balance is below the amount the row is unchanged and the answer is
\* InsufficientBalance.
C10_UnlockDelta ==
    [][last'.op = "unlock"
        => /\ last'.result = "Ok"
              => /\ vaults[last'.owner] # NoVault
                 /\ vaults[last'.owner].locked_balance >= last'.amount
                 /\ vaults' = [vaults EXCEPT ![last'.owner] =
                                  [@ EXCEPT !.locked_balance = @ - last'.amount,
                                            !.available_balance = @ + last'.amount]]
           /\ (vaults[last'.owner] # NoVault
               /\ vaults[last'.owner].locked_balance < last'.amount)
              => /\ last'.result = "InsufficientBalance"
                 /\ vaults'[last'.owner] = vaults[last'.owner]]_vars

\* C11: a transfer that answers Ok found the sender's row with available_balance
\* of at least the amount, and changes the mirror by exactly the sender's debit
\* and the receiver's credit in total_balance and available_balance; no
\* locked_balance changes and the two totals add up to what they did before.
C11_TransferDelta ==
    [][(last'.op = "transfer" /\ last'.result = "Ok")
        => LET from == last'.owner
               to == last'.to
               amount == last'.amount
           IN /\ vaults[from] # NoVault
              /\ vaults[to] # NoVault
              /\ vaults[from].available_balance >= amount
              /\ vaults' = BothSides(vaults, from, to, amount)
              /\ from # to
                    => /\ vaults'[from].available_balance
                            = vaults[from].available_balance - amount
                       /\ vaults'[from].total_balance
                            = vaults[from].total_balance - amount
                       /\ vaults'[to].available_balance
                            = vaults[to].available_balance + amount
                       /\ vaults'[to].total_balance
                            = vaults[to].total_balance + amount
              /\ \A o \in {from, to} :
                    vaults'[o].locked_balance = vaults[o].locked_balance
              /\ vaults'[from].total_balance + vaults'[to].total_balance
                    = vaults[from].total_balance + vaults[to].total_balance]_vars

\* a transfer of 1 from A (available 2) to B (available 0) has answered Ok:
\* A holds 1/1 and B holds 1/1
C11_Witness ==
    /\ last.op = "transfer"
    /\ last.result = "Ok"
    /\ last.owner = "A"
    /\ last.to = "B"
    /\ last.amount = 1
    /\ vaults["A"] # NoVault
    /\ vaults["B"] # NoVault
    /\ vaults["A"].available_balance = 1
    /\ vaults["A"].total_balance = 1
    /\ vaults["B"].available_balance = 1
    /\ vaults["B"].total_balance = 1

\* C12: an initialize inserts the owner's mirror row only when the initializing
\* transaction has landed on the ledger (the on-chain account exists); an
\* initialize that answers a build or ledger error inserts nothing; the row it
\* inserts has all five balance fields 0.
C12_InitializeAfterConfirmation ==
    [][last'.op = "initialize"
        => /\ (vaults[last'.owner] = NoVault /\ vaults'[last'.owner] # NoVault)
                => /\ onchain[last'.owner] = NoVault
                   /\ onchain'[last'.owner] # NoVault
                   /\ vaults'[last'.owner] = NewVault
           /\ last'.result \in {"BuildError", "LedgerError"} => vaults' = vaults]_vars

\* C13: an initialize for an owner whose mirror row exists answers
\* VaultAlreadyExists, submits nothing to the ledger and leaves the mirror as it was.
C13_InitializeExisting ==
    [][(last'.op = "initialize" /\ vaults[last'.owner] # NoVault)
        => /\ last'.result = "VaultAlreadyExists"
           /\ ~last'.sent
           /\ vaults' = vaults]_vars

\* C14: a close removes the owner's mirror row only when the close transaction
\* has landed on the ledger (the on-chain account is gone).
C14_CloseAfterConfirmation ==
    [][(/\ last'.op = "close"
        /\ vaults[last'.owner] # NoVault
        /\ vaults'[last'.owner] = NoVault)
        => /\ onchain[last'.owner] # NoVault
           /\ onchain'[last'.owner] = NoVault]_vars

\* C15: a reconciliation pass that completes has visited every owner that had a
\* row in the mirror when it started.
C15_PassVisitsEveryVault ==
    [][last'.op = "pass" => last'.visited = Rows]_vars

\* what reconcile_vault reads for an owner: the on-chain total as an i64, the
\* row's total, and their difference
OnchainTotal(o) == AsI64(onchain[o].total_balance)
MirrorTotal(o) == vaults[o].total_balance
Drift(o) == OnchainTotal(o) - MirrorTotal(o)
LogRow(o) ==
    [owner |-> o, onchain_balance |-> OnchainTotal(o),
     offchain_balance |-> MirrorTotal(o), discrepancy |-> Drift(o)]

\* C16: a reconciliation of a vault that fetched the on-chain account and found a
\* nonzero discrepancy appends one log row holding the on-chain total, the
\* mirror total and their difference, whatever the size of the discrepancy
\* (unless the insert itself fails, and then nothing is written); with a zero
\* discrepancy the log is left as it was.  In a pass, the rows appended are
\* those of the vaults reconciled with a nonzero discrepancy.
C16_DiscrepancyLogged ==
    [][/\ (last'.op = "reconcile" /\ last'.result # "LedgerError")
            => IF Drift(last'.owner) # 0
               THEN \/ reconLog' = Append(reconLog, LogRow(last'.owner))
                    \/ /\ last'.result = "StoreError"
                       /\ reconLog' = reconLog
                       /\ vaults' = vaults
               ELSE reconLog' = reconLog
       /\ last'.op = "pass"
            => /\ Len(reconLog') >= Len(reconLog)
               /\ SubSeq(reconLog', 1, Len(reconLog)) = reconLog
               /\ \A o \in last'.visited \ last'.failed :
                    (Drift(o) # 0)
                        <=> \E i \in (Len(reconLog) + 1)..Len(reconLog') :
                                reconLog'[i] = LogRow(o)]_vars

\* the log holds a discrepancy equal to the threshold and one below it
C16_Witness ==
    /\ last.op = "reconcile"
    /\ \E i \in DOMAIN reconLog : reconLog[i].discrepancy = AUTO_CORRECT_THRESHOLD
    /\ \E j \in DOMAIN reconLog :
          /\ reconLog[j].discrepancy # 0
          /\ Abs(reconLog[j].discrepancy) < AUTO_CORRECT_THRESHOLD
          /\ reconLog[j].discrepancy
                = reconLog[j].onchain_balance - reconLog[j].offchain_balance

\* C17: a reconciliation of a vault changes the mirror only for a discrepancy d
\* with 0 < |d| < AUTO_CORRECT_THRESHOLD, and when it returns Ok for such a d the
\* row's total_balance is the on-chain total it read; for d = 0 and for
\* |d| >= AUTO_CORRECT_THRESHOLD the mirror is left as it was.
C17_ThresholdBoundary ==
    [][(last'.op = "reconcile" /\ last'.result # "LedgerError")
        => LET o == last'.owner
               d == Drift(o)
           IN /\ (last'.result = "Ok" /\ 0 < Abs(d) /\ Abs(d) < AUTO_CORRECT_THRESHOLD)
                    => /\ vaults'[o].total_balance = OnchainTotal(o)
                       /\ \A p \in Owners \ {o} : vaults'[p] = vaults[p]
              /\ (d = 0 \/ Abs(d) >= AUTO_CORRECT_THRESHOLD) => vaults' = vaults
              /\ (last'.result = "Ok" /\ Abs(d) >= AUTO_CORRECT_THRESHOLD)
                    => reconLog' = Append(reconLog, LogRow(o))]_vars

\* a discrepancy of AUTO_CORRECT_THRESHOLD - 1 was logged and its vault holds the
\* on-chain total, a discrepancy of AUTO_CORRECT_THRESHOLD was logged and its
\* vault holds the total it held
C17_Witness ==
    /\ last.op = "reconcile"
    /\ \E i \in DOMAIN reconLog :
          /\ reconLog[i].discrepancy = AUTO_CORRECT_THRESHOLD - 1
          /\ vaults[reconLog[i].owner] # NoVault
          /\ vaults[reconLog[i].owner].total_balance = reconLog[i].onchain_balance
    /\ \E j \in DOMAIN reconLog :
          /\ reconLog[j].discrepancy = AUTO_CORRECT_THRESHOLD
          /\ vaults[reconLog[j].owner] # NoVault
          /\ vaults[reconLog[j].owner].total_balance = reconLog[j].offchain_balance

\* C18: a reconciliation, of one vault or a whole pass, leaves every row's
\* locked_balance, total_deposited and total_withdrawn as they were, and a row it
\* changes has the discrepancy added to total_balance and to available_balance.
C18_CorrectionKeepsLocked ==
    [][last'.op \in {"reconcile", "pass"}
        => \A o \in Rows :
            /\ vaults'[o] # NoVault
            /\ vaults'[o].locked_balance = vaults[o].locked_balance
            /\ vaults'[o].total_deposited = vaults[o].total_deposited
            /\ vaults'[o].total_withdrawn = vaults[o].total_withdrawn
            /\ vaults'[o] # vaults[o]
                => vaults'[o] = [vaults[o] EXCEPT
                                    !.total_balance = @ + Drift(o),
                                    !.available_balance = @ + Drift(o)]]_vars

\* a vault with a locked balance has just been corrected
C18_Witness ==
    /\ last.op = "reconcile"
    /\ last.result = "Ok"
    /\ last.owner \in Rows
    /\ vaults[last.owner].locked_balance = 1
    /\ Len(reconLog) > 0
    /\ reconLog[Len(reconLog)].owner = last.owner
    /\ reconLog[Len(reconLog)].discrepancy # 0
    /\ vaults[last.owner].total_balance = reconLog[Len(reconLog)].onchain_balance
    /\ vaults[last.owner].total_balance # reconLog[Len(reconLog)].offchain_balance

C20_PassSurvivesFailure ==
    [][last'.op = "pass"
        => /\ last'.visited = last'.listed
           /\ last'.result = "Ok"
           /\ last'.total_discrepancies
                = Cardinality({o \in last'.listed \ last'.failed : Drift(o) # 0})
           /\ \A o \in last'.listed \ last'.failed :
                (0 < Abs(Drift(o)) /\ Abs(Drift(o)) < AUTO_CORRECT_THRESHOLD)
                    => vaults'[o].total_balance = OnchainTotal(o)]_vars

\* a pass in which the first vault's reconciliation failed and the second
\* vault was corrected and counted
C20_Witness ==
    /\ last.op = "pass"
    /\ last.failed = {OwnerOrder[1]}
    /\ last.corrected = {OwnerOrder[2]}
    /\ last.total_discrepancies = 1

\* C21: the tracker's loop never ends: it is scanning infinitely often and idle
\* infinitely often, and a pass that returned an error, like one that returned
\* Ok, is followed by another pass.
C21_TrackerRunsForever ==
    /\ []<>(tracker.pc = "Scanning")
    /\ []<>(tracker.pc = "Idle")
    /\ (tracker.pc = "Idle" /\ tracker.result = "Err") ~> (tracker.pc = "Scanning")
    /\ (tracker.pc = "Idle" /\ tracker.result = "Ok") ~> (tracker.pc = "Scanning")

\* a pass has started after a pass that returned an error
C21_Witness ==
    /\ tracker.pc = "Scanning"
    /\ tracker.result = "Err"

\* C22: a pass in which no reconciliation failed leaves every vault whose
\* on-chain total differed from its mirror total by less than
\* AUTO_CORRECT_THRESHOLD with total_balance equal to the on-chain total.
C22_PassRepairsDrift ==
    [][(last'.op = "pass" /\ last'.failed = {})
        => \A o \in Rows :
            (onchain[o] # NoVault /\ Abs(Drift(o)) < AUTO_CORRECT_THRESHOLD)
                => vaults'[o].total_balance = OnchainTotal(o)]_vars

\* the calls of one kind made on the builder, in the order they were made
IsAddInstruction(c) == c.op = "add_instruction"
IsAddSigner(c) == c.op = "add_signer"
IsSetPriorityFee(c) == c.op = "set_priority_fee"
AddedInstructions ==
    LET s == SelectSeq(builder.calls, IsAddInstruction)
    IN  [i \in 1..Len(s) |-> s[i].arg]
AddedSigners ==
    LET s == SelectSeq(builder.calls, IsAddSigner)
    IN  [i \in 1..Len(s) |-> s[i].arg.key]
FeeCalls == SelectSeq(builder.calls, IsSetPriorityFee)

\* C23: a built transaction starts with the compute-budget instruction that sets
\* the last supplied price, followed by the business instructions in the order
\* they were added, when a priority fee was supplied, and is exactly the added
\* instructions in order when none was; where set_priority_fee sits among the
\* add_instruction calls makes no difference.
C23_InstructionOrder ==
    builder.pc = "built" =>
        IF FeeCalls # << >>
        THEN builder.tx.instructions =
                 <<set_compute_unit_price(FeeCalls[Len(FeeCalls)].arg.fee)>>
                     \o AddedInstructions
        ELSE builder.tx.instructions = AddedInstructions
C23_Witness ==
    /\ builder.pc = "built"
    /\ Len(builder.calls) = 3
    /\ IsAddInstruction(builder.calls[1])
    /\ IsSetPriorityFee(builder.calls[2])
    /\ IsAddInstruction(builder.calls[3])
    /\ builder.calls[1].arg # builder.calls[3].arg
    /\ builder.tx.instructions[1].program = "ComputeBudget"
    /\ builder.tx.instructions[2] = builder.calls[1].arg
    /\ builder.tx.instructions[3] = builder.calls[3].arg

C25_EmptyBuildFails ==
    (builder.pc = "built" /\ AddedInstructions = << >>) =>
        builder.tx.result = "BuildError"

IsPrefix(s, t) == Len(s) <= Len(t) /\ SubSeq(t, 1, Len(s)) = s

\* C27: the event log and the reconciliation log only grow at their end: every
\* step, the close of a vault included, leaves each log's earlier rows as they
\* were, so each log is an extension of what it was in any earlier state.
C27_LogsAppendOnly ==
    [][IsPrefix(events, events') /\ IsPrefix(reconLog, reconLog')]_vars
C27_Witness ==
    /\ last.op = "close"
    /\ last.result = "Ok"
    /\ vaults[last.owner] = NoVault
    /\ \E i \in 1..Len(events) :
           events[i].owner = last.owner /\ events[i].kind # "close"
    /\ \E j \in 1..Len(reconLog) : reconLog[j].owner = last.owner

\* the rows a step added at the end of the event log
NewEvents == SubSeq(events', Len(events) + 1, Len(events'))
BalanceOps == {"deposit", "withdraw", "lock", "unlock", "transfer", "close"}

\* C28: a successful deposit, withdraw, lock, unlock, transfer or close appends
\* its audit events, and events are appended only by a step that applied the
\* operation's delta to the owner's row of the mirror: one event for the owner
\* (transfer_out for the sender then transfer_in for the receiver in a
\* transfer), each carrying the signature the submission returned.
C28_EventAfterMirrorDelta ==
    [][/\ (last'.op \in BalanceOps /\ last'.result = "Ok")
              => Len(events') > Len(events)
       /\ Len(events') > Len(events)
              => /\ last'.sig # 0
                 /\ \A i \in 1..Len(NewEvents) : NewEvents[i].sig = last'.sig
                 /\ IF last'.op = "transfer"
                    THEN /\ Len(NewEvents) = 2
                         /\ NewEvents[1].kind = "transfer_out"
                         /\ NewEvents[1].owner = last'.owner
                         /\ NewEvents[2].kind = "transfer_in"
                         /\ NewEvents[2].owner = last'.to
                    ELSE /\ Len(NewEvents) = 1
                         /\ NewEvents[1].owner = last'.owner
                 /\ vaults'[last'.owner] # vaults[last'.owner]
    ]_vars

\* C29 (I3): while a vault's row exists, no step of any operation or of the
\* reconciliation lowers its total_deposited or its total_withdrawn.
C29_LifetimeTotalsMonotonic ==
    [][\A o \in Owners :
          (vaults[o] # NoVault /\ vaults'[o] # NoVault)
              => /\ vaults'[o].total_deposited >= vaults[o].total_deposited
                 /\ vaults'[o].total_withdrawn >= vaults[o].total_withdrawn]_vars
C29_Witness ==
    /\ last.svc = "VaultManager"
    /\ last.op = "withdraw"
    /\ last.result = "Ok"
    /\ vaults[last.owner] # NoVault
    /\ \E i \in 1..Len(events) :
           events[i].owner = last.owner /\ events[i].kind = "deposit"
    /\ \E j \in 1..Len(reconLog) : reconLog[j].owner = last.owner

\* the rows the request just answered was about
Addressed(r) == IF r.op = "transfer" THEN {r.owner, r.to} ELSE {r.owner}

\* C30: a deposit, withdraw, lock, unlock, close or reconciliation of one
\* owner's vault leaves the mirror row of every other owner as it was, and a
\* transfer leaves every row but the sender's and the receiver's as it was.
C30_OtherVaultsUntouched ==
    [][\A p \in Holders \ Addressed(last') : vaults'[p] = vaults[p]]_vars
C30_Witness ==
    /\ last.op = "transfer"
    /\ last.result = "Ok"
    /\ last.owner # last.to
    /\ vaults[last.to] # NoVault
    /\ vaults[last.to].total_balance >= last.amount
    /\ vaults[Bystander] = NewVault
    /\ \E j \in 1..Len(reconLog) : reconLog[j].owner \in {last.owner, last.to}

\* C31: while a vault's row exists its owner, vault address and creation time
\* stay what they were when the row was created, whatever operation or
\* reconciliation step is taken, and the address of every row is the one derived
\* from its owner with the seed "vault": deriving it again gives the stored one.
C31_IdentityImmutable ==
    [][\A o \in DOMAIN vaults :
          /\ vaults'[o] # NoVault
                => /\ ident'[o] # NoVault
                   /\ ident'[o].owner = o
                   /\ ident'[o].vault_address =
                          [seeds |-> <<"vault", o>>, program |-> ProgramId]
          /\ (vaults[o] # NoVault /\ vaults'[o] # NoVault) => ident'[o] = ident[o]
      ]_vars
C31_Witness ==
    /\ last.op = "reconcile"
    /\ last.result = "Ok"
    /\ ident[last.owner] # NoVault
    /\ ident[last.owner].created_at > 0
    /\ vaults[last.owner].total_balance > 0
    /\ ident[last.owner].vault_address = get_vault_pda(last.owner)

\* I1 and I2 on one row of the mirror
RowSound(v) ==
    /\ v.total_balance = v.locked_balance + v.available_balance
    /\ v.total_balance >= 0
    /\ v.locked_balance >= 0
    /\ v.available_balance >= 0

\* C32: when a reconciliation corrects a row that satisfies I1 and I2 for a
\* negative discrepancy below the threshold, the corrected row's total_balance
\* and available_balance are still at least 0.
C32_CorrectionKeepsNonNegative ==
    [][(/\ last'.op = "reconcile"
        /\ last'.result = "Ok"
        /\ RowSound(vaults[last'.owner])
        /\ Drift(last'.owner) < 0
        /\ Abs(Drift(last'.owner)) < AUTO_CORRECT_THRESHOLD)
        => /\ vaults'[last'.owner].total_balance >= 0
           /\ vaults'[last'.owner].available_balance >= 0]_vars

\* the step is a visit of the pass; Visit is the record of it
Visiting ==
    /\ tracker.pc = "Reconciling"
    /\ tracker'.pc = "Reconciling"
    /\ Len(tracker'.done) > Len(tracker.done)
Visit == tracker'.done[Len(tracker'.done)]

\* C33: when a vault's mirror row changed after the pass read it, and the row's
\* total is the on-chain total by the time the pass reconciles that vault, the
\* reconciliation leaves the row's total_balance at the on-chain total: the
\* operation's delta is not applied a second time.
C33_StaleSnapshotNoDoubleCount ==
    [][(/\ Visiting
        /\ Visit.present
        /\ Visit.result = "Ok"
        /\ onchain[Visit.owner] # NoVault
        /\ vaults[Visit.owner].total_balance # Visit.total_balance
        /\ vaults[Visit.owner].total_balance = OnchainTotal(Visit.owner))
        => vaults'[Visit.owner].total_balance = OnchainTotal(Visit.owner)]_vars

\* C34: a deposit, withdraw, lock, unlock, transfer or close that returns an
\* error to its caller leaves every row of the mirror as it was before the
\* request, a failure of the event append or of the fee estimate included.
C34_ErrorLeavesMirror ==
    [][(last'.op \in BalanceOps /\ last'.result \notin {"Ok", "none"})
          => vaults' = vaults]_vars

\* C35: a successful VaultManager deposit of any amount of the unsigned range
\* raises the row's total_balance and available_balance by exactly that amount,
\* and a successful withdraw lowers them by exactly that amount.
C35_AmountConversionExact ==
    [][(/\ last'.svc = "VaultManager"
        /\ last'.op \in {"deposit", "withdraw"}
        /\ last'.result = "Ok"
        /\ vaults[last'.owner] # NoVault)
        => LET o == last'.owner
               by == IF last'.op = "deposit" THEN last'.amount ELSE 0 - last'.amount
           IN /\ vaults'[o].total_balance = vaults[o].total_balance + by
              /\ vaults'[o].available_balance = vaults[o].available_balance + by
      ]_vars

\* the drift of an owner's row as a number, with no 64-bit conversion in it
TrueDrift(o) == onchain[o].total_balance - vaults[o].total_balance

\* C36: the discrepancy a reconciliation logs is the on-chain total minus the
\* mirror total as numbers, for every on-chain total of the unsigned range, and
\* a drift whose size is the threshold or more is never corrected.
C36_DiscrepancyIsTrueDifference ==
    [][(/\ last'.op = "reconcile"
        /\ last'.result = "Ok"
        /\ vaults[last'.owner] # NoVault
        /\ onchain[last'.owner] # NoVault)
        => LET o == last'.owner
           IN /\ Abs(TrueDrift(o)) >= AUTO_CORRECT_THRESHOLD => vaults' = vaults
              /\ TrueDrift(o) # 0
                    => /\ Len(reconLog') = Len(reconLog) + 1
                       /\ reconLog'[Len(reconLog')].discrepancy = TrueDrift(o)
      ]_vars

\* C37: no step of the reconciliation adds or removes a row of the mirror, and
\* a vault whose row was deleted after the pass read its list has no row after
\* the pass reconciled it either.
C37_ReconciliationKeepsRows ==
    [][(Visiting \/ last'.op = "reconcile")
          => \A o \in Owners : (vaults'[o] = NoVault) <=> (vaults[o] = NoVault)]_vars
C37_Witness ==
    /\ tracker.pc = "Reconciling"
    /\ \E i \in 1..Len(tracker.done) :
          /\ ~tracker.done[i].present
          /\ tracker.done[i].result = "Ok"
          /\ vaults[tracker.done[i].owner] = NoVault
          /\ \E j \in 1..Len(reconLog) :
                /\ reconLog[j].owner = tracker.done[i].owner
                /\ Abs(reconLog[j].discrepancy) < AUTO_CORRECT_THRESHOLD

\* the three balances of a row
Balances(v) == <<v.total_balance, v.locked_balance, v.available_balance>>

\* C38: from every row the mirror can hold and for every amount, the mirror
\* update of a successful lock followed by that of a successful unlock of the
\* same amount gives back the row's total, locked and available balances, and so
\* does the update of a successful deposit followed by that of a successful
\* withdraw of the same amount.
C38_RoundTripsRestore ==
    \A o \in Rows, a \in Amounts :
        /\ LET l == update_vault_balances(vaults, o, "lock", a)
               u == update_vault_balances(l.vaults, o, "unlock", a)
           IN (l.ok /\ u.ok) => Balances(u.vaults[o]) = Balances(vaults[o])
        /\ LET d == update_vault_balance(vaults, o, AsI64(a), 0, AsI64(a))
               w == update_vault_balance(d.vaults, o, 0 - AsI64(a), 0, 0 - AsI64(a))
           IN (d.ok /\ w.ok) => Balances(w.vaults[o]) = Balances(vaults[o])
C38_Witness ==
    /\ last.op = "unlock"
    /\ last.result = "Ok"
    /\ Len(events) = 2
    /\ events[1] = Event(last.owner, "lock", last.amount, 1)
    /\ events[2] = Event(last.owner, "unlock", last.amount, 2)
    /\ Balances(vaults[last.owner]) = Balances(LockedVault)
    /\ update_vault_balances(vaults, last.owner, "lock", last.amount).ok

\* the request t has been accepted and has not returned
InFlight(t) == rpc.req[t].at \notin {"idle", "done"}

\* the mutex is held by a request inside a method, and by no request that is
\* outside one or asking for it
GuardScoped ==
    /\ rpc.holder # Free => rpc.req[rpc.holder].at \in {"holding", "returning"}
    /\ \A t \in Requests :
           /\ rpc.req[t].at \in {"holding", "returning"} => rpc.holder = t
           /\ rpc.req[t].at \in {"idle", "start", "waiting", "done"} => rpc.holder # t
           /\ rpc.req[t].at = "waiting"
                  <=> \E i \in 1..Len(rpc.waiters) : rpc.waiters[i] = t

\* C39: a request holds the client's mutex only inside one method of
\* RpcService and never asks for it while holding it, and every request in
\* flight on the shared client returns, whatever the other requests do, when
\* the ledger and the store answer its calls.
C39_NoDeadlock ==
    /\ []GuardScoped
    /\ \A t \in Requests : InFlight(t) ~> (rpc.req[t].at = "done")
C39_Witness ==
    /\ \A t \in Requests : rpc.req[t].at = "done"
    /\ \E t \in Requests : rpc.req[t].waited /\ rpc.req[t].result = "Ok"
                           /\ rpc.req[t].kind = "deposit_collateral"
    /\ \E t \in Requests : rpc.req[t].kind = "initialize_vault" /\ rpc.req[t].result = "Ok"

====
